---- MODULE Spec2Model ----
(***************************************************************************)
(* A model of the plan executor of graphile-crystal's Aether               *)
(* (packages/graphile-crystal/src/aether.ts): executePlan and its helpers, *)
(* the in-flight map of the execution context, the promise continuations   *)
(* the executor registers, and the batch entry points.                     *)
(*                                                                         *)
(* JavaScript objects that are shared by reference (result arrays, plan    *)
(* caches, promises, closures) live in heaps indexed by naturals, so that  *)
(* an in-place mutation (Array.prototype.splice) is seen by every holder.  *)
(* Indexes are 1-based here where the source is 0-based.                   *)
(***************************************************************************)
EXTENDS Integers, Sequences, FiniteSets, TLC

VARIABLES
  aether,                      \* the compiled operation (plan table and indexes)
  planResults,                 \* PlanResults objects: path identity -> bucket
  buckets,                     \* PlanResultsBucket objects: plan id -> value
  arrays,                      \* heap of JavaScript arrays
  promises,                    \* heap of promises (and deferreds)
  frames,                      \* heap of suspended closures
  microtasks,                  \* the promise job queue
  caches,                      \* planCacheForPlanResultses objects
  inProgressPlanResolutions,   \* crystalContext.inProgressPlanResolutions
  executions,                  \* trace of plan.execute invocations
  pendingExecutes,             \* promises returned by execute, not yet settled
  completions,                 \* trace of plan.execute completions
  errorCount,                  \* number of CrystalError objects constructed
  crystalObjects,              \* heap of CrystalObjects
  calls,                       \* executePlan invocations made by callers
  batches,                     \* heap of Batch objects
  batchByPathIdentity,         \* aether.batchByPathIdentity
  nextTicks,                   \* callbacks queued with process.nextTick
  lookups,                     \* resolver invocations that asked for a batch
  lookupsBeforeTick,           \* how many of them precede the current tick
  compiler,                    \* the Aether under construction
  iterator,                    \* the async iterator wrapped around a stream
  builder                      \* the SchemaBuilder and what its watchers hold

vars == <<aether, planResults, buckets, arrays, promises, frames, microtasks,
          caches, inProgressPlanResolutions, executions, pendingExecutes,
          completions, errorCount, crystalObjects, calls, batches,
          batchByPathIdentity, nextTicks, lookups, lookupsBeforeTick, compiler,
          iterator, builder>>

----------------------------------------------------------------------------
(* Bounds *)

MaxParents == 2
MaxCalls == 2
MaxExternalCalls == 2
MaxNexts == 3
MaxElements == 2
MaxTerminations == 1

(* deduplicatePlans gives up after this many passes *)
MaxLoops == 10000

----------------------------------------------------------------------------
(* Values.  Every JavaScript value is a record [k, p, a].                  *)

Undefined == [k |-> "undef", p |-> 0, a |-> <<>>]
Null == [k |-> "null", p |-> 0, a |-> <<>>]
Absent == [k |-> "absent", p |-> 0, a |-> <<>>]
PR(i) == [k |-> "pr", p |-> i, a |-> <<>>]
Arr(i) == [k |-> "arr", p |-> i, a |-> <<>>]
Prom(i) == [k |-> "prom", p |-> i, a |-> <<>>]
Input(i) == [k |-> "in", p |-> i, a |-> <<>>]
Obj(i) == [k |-> "obj", p |-> i, a |-> <<>>]
Exc(plan) == [k |-> "exc", p |-> plan, a |-> <<>>]
Throw(e) == [k |-> "throw", p |-> 0, a |-> <<e>>]
MkVal(plan, args) == [k |-> "val", p |-> plan, a |-> args]
CrystalError(id, e) == [k |-> "err", p |-> id, a |-> <<e>>]

isPromiseLike(v) == v.k = "prom"
IsNullish(v) == v.k \in {"null", "undef"}
IsCrystalError(v) == v.k = "err"

RECURSIVE Origin(_)
Origin(v) ==
  IF v.k = "in" THEN v.p
  ELSE IF v.a = <<>> THEN 0
  ELSE Origin(v.a[1])

Get(s, i) == IF i \in 1..Len(s) THEN s[i] ELSE Undefined
Splice(s, i) ==
  IF i \in 1..Len(s) THEN SubSeq(s, 1, i - 1) \o SubSeq(s, i + 1, Len(s)) ELSE s
Reverse(s) == [i \in 1..Len(s) |-> s[Len(s) + 1 - i]]
Range(s) == {s[i] : i \in 1..Len(s)}
Iota(n) == [i \in 1..n |-> i]

----------------------------------------------------------------------------
(* The interpreter threads one record holding the mutable heaps, and the   *)
(* aether every function of the executor has at hand as `this`.           *)

S == [aether |-> aether, planResults |-> planResults, buckets |-> buckets, arrays |-> arrays,
      promises |-> promises, frames |-> frames, microtasks |-> microtasks,
      caches |-> caches,
      inProgressPlanResolutions |-> inProgressPlanResolutions,
      executions |-> executions, pendingExecutes |-> pendingExecutes,
      completions |-> completions, errorCount |-> errorCount,
      crystalObjects |-> crystalObjects]

Commit(st) ==
  /\ aether' = st.aether
  /\ planResults' = st.planResults
  /\ buckets' = st.buckets
  /\ arrays' = st.arrays
  /\ promises' = st.promises
  /\ frames' = st.frames
  /\ microtasks' = st.microtasks
  /\ caches' = st.caches
  /\ inProgressPlanResolutions' = st.inProgressPlanResolutions
  /\ executions' = st.executions
  /\ pendingExecutes' = st.pendingExecutes
  /\ completions' = st.completions
  /\ errorCount' = st.errorCount
  /\ crystalObjects' = st.crystalObjects

Plan(id) == aether.plans[id]
PlanIds == 1..Len(aether.plans)
Field(f) == aether.fields[f]
FieldIds == 1..Len(aether.fields)

NewArray(st, contents) ==
  [st |-> [st EXCEPT !.arrays = Append(@, contents)], id |-> Len(st.arrays) + 1]

NewCache(st) ==
  [st |-> [st EXCEPT !.caches = Append(@, [p \in PlanIds |-> Absent])],
   id |-> Len(st.caches) + 1]

NewCrystalError(st, e) ==
  [st |-> [st EXCEPT !.errorCount = @ + 1], v |-> CrystalError(st.errorCount + 1, e)]

(* PlanResults.getBucket / has / get / set *)
getBucket(st, pr, pathIdentity) == st.planResults[pr][pathIdentity]
PRHas(st, pr, pathIdentity, plan) ==
  st.buckets[getBucket(st, pr, pathIdentity)][plan] # Absent
PRGet(st, pr, pathIdentity, plan) ==
  LET v == st.buckets[getBucket(st, pr, pathIdentity)][plan]
  IN IF v = Absent THEN Undefined ELSE v
PRSet(st, pr, pathIdentity, plan, v) ==
  [st EXCEPT !.buckets[getBucket(st, pr, pathIdentity)][plan] = v]

----------------------------------------------------------------------------
(* Promises.  A waiter names the closure to resume: frame, entry point and *)
(* an index; a microtask is a waiter with the settled outcome.             *)

Waiter(f, tag, i) == [f |-> f, tag |-> tag, i |-> i]
Job(w, ok, v) == [f |-> w.f, tag |-> w.tag, i |-> w.i, ok |-> ok, v |-> v]

NewPromise(st) ==
  [st |-> [st EXCEPT !.promises =
             Append(@, [state |-> "pending", value |-> Undefined, waiters |-> <<>>])],
   id |-> Len(st.promises) + 1]

(* promise.then(...) / await: run the waiter once the target has settled *)
Then(st, target, w) ==
  IF isPromiseLike(target)
  THEN LET p == st.promises[target.p]
       IN IF p.state = "pending"
          THEN [st EXCEPT !.promises[target.p].waiters = Append(@, w)]
          ELSE [st EXCEPT !.microtasks = Append(@, Job(w, p.state = "fulfilled", p.value))]
  ELSE [st EXCEPT !.microtasks = Append(@, Job(w, TRUE, target))]

(* resolve(v) / reject(v); resolving with a promise adopts its outcome *)
Settle(st, pid, ok, v) ==
  IF st.promises[pid].state # "pending" THEN st
  ELSE IF ok /\ isPromiseLike(v) THEN Then(st, v, Waiter(0, "adopt", pid))
  ELSE LET ws == st.promises[pid].waiters
       IN [st EXCEPT
             !.promises[pid] = [state |-> IF ok THEN "fulfilled" ELSE "rejected",
                                value |-> v, waiters |-> <<>>],
             !.microtasks = @ \o [j \in 1..Len(ws) |-> Job(ws[j], ok, v)]]

Frame0 ==
  [kind |-> "none", plan |-> 0, prs |-> <<>>, cache |-> 0, result |-> 0,
   lists |-> <<>>, pend |-> <<>>, pcache |-> 0, dvl |-> <<>>, dps |-> <<>>,
   promise |-> 0, idxs |-> <<>>, defs |-> <<>>, inpDefs |-> <<>>,
   inpIdxs |-> <<>>, inpVals |-> <<>>, hp |-> "pending", hi |-> "pending",
   hiError |-> Undefined, real |-> <<>>, indexMap |-> <<>>, execRes |-> 0,
   path |-> "", field |-> 0, se |-> <<>>, itemPlan |-> 0, allow |-> FALSE,
   final |-> <<>>, wait |-> 0]

NewFrame(st, fr) ==
  [st |-> [st EXCEPT !.frames = Append(@, fr)], id |-> Len(st.frames) + 1]

----------------------------------------------------------------------------
(* Helpers shared by the execution paths *)

(* result[item.planResultsesIndex] = v for every item of a list *)
FillResult(st, result, list, v) ==
  [st EXCEPT !.arrays[result] =
     [i \in 1..Len(@) |-> IF i \in Range(list) THEN v ELSE @[i]]]

(* dependencyValuesList[dependencyIndex].splice(index, 1), one dependency  *)
(* after the other, on the arrays themselves                               *)
RECURSIVE SpliceAll(_, _, _, _)
SpliceAll(st, dvl, d, index) ==
  IF d > Len(dvl) THEN st
  ELSE SpliceAll([st EXCEPT !.arrays[dvl[d]] = Splice(@, index)], dvl, d + 1, index)

(* The rows a plan's execute sees: one per entry of the first dependency's *)
(* values, holding that entry of every dependency's values.                *)
Rows(st, dvl) ==
  [r \in 1..Len(st.arrays[dvl[1]]) |->
     [d \in 1..Len(dvl) |-> Get(st.arrays[dvl[d]], r)]]

(* First CrystalError among the dependency values at index, else Absent *)
RECURSIVE FirstError(_, _, _, _)
FirstError(st, dvl, d, index) ==
  IF d > Len(dvl) THEN Absent
  ELSE LET dv == Get(st.arrays[dvl[d]], index)
       IN IF IsCrystalError(dv) THEN dv ELSE FirstError(st, dvl, d + 1, index)

LogExecution(st, plan, for, rows) ==
  [st EXCEPT !.executions = Append(@, [plan |-> plan, for |-> for, rows |-> rows])]

(* execute returned, threw, or the promise it returned settled; `after` is *)
(* the number of executions begun by then                                 *)
LogCompletion(st, plan) ==
  [st EXCEPT !.completions = Append(@, [plan |-> plan, after |-> Len(st.executions)])]

(* The dependency values of a plan without dependencies *)
NoDependencyValues(st, plan, count) ==
  NewArray(st, IF Plan(plan).hasSideEffects
               THEN [i \in 1..count |-> Undefined]
               ELSE <<Undefined>>)

----------------------------------------------------------------------------
(* executePlan and the functions it is made of.  Each returns the new     *)
(* heaps and what the call returns: an array, a promise or a throw.       *)

RECURSIVE AltDependencies(_, _, _)

(* Every call of a function of the executor goes through Run *)
RECURSIVE Run(_, _, _)
RECURSIVE Compile(_, _, _)

Ret(st, ret) == [st |-> st, ret |-> ret]

(* Shortcut evaluation because __ItemPlan cannot be executed *)
ItemPlanValues(st, plan, prs) ==
  LET a == NewArray(st, [i \in 1..Len(prs) |->
                 IF prs[i].k = "pr"
                 THEN PRGet(st, prs[i].p, Plan(plan).commonAncestorPathIdentity, plan)
                 ELSE prs[i]])
  IN Ret(a.st, Arr(a.id))

(* plan.execute of a plan that completes synchronously *)
ExecuteResults(plan, rows) == [r \in 1..Len(rows) |-> MkVal(plan, rows[r])]

(* --- executePlanPending --------------------------------------------- *)

(* The loop that short-circuits the entries with an error in their        *)
(* dependencies; i runs from the last entry down to the first.            *)
RECURSIVE PendingErrors(_, _, _, _, _)
PendingErrors(st, fr, i, real, indexMap) ==
  IF i = 0 THEN [st |-> st, real |-> Reverse(real), indexMap |-> Reverse(indexMap)]
  ELSE LET P == Plan(fr.plan)
           error == IF Len(P.dependencies) > 0
                    THEN FirstError(st, fr.dvl, 1, i) ELSE Absent
       IN IF error # Absent
          THEN LET st1 == [st EXCEPT !.arrays[fr.result][i] = error]
                   st2 == PRSet(st1, fr.pend[i].p, P.commonAncestorPathIdentity,
                                fr.plan, error)
               IN PendingErrors(SpliceAll(st2, fr.dvl, 1, i), fr, i - 1, real, indexMap)
          ELSE PendingErrors(st, fr, i - 1, Append(real, fr.pend[i]), Append(indexMap, i))

PendingExecute(st, fid) ==
  LET fr0 == st.frames[fid]
      P == Plan(fr0.plan)
      res == NewArray(st, [i \in 1..Len(fr0.pend) |-> Undefined])
      fr1 == [fr0 EXCEPT !.result = res.id]
      e == Run("PendingErrors", res.st, << fr1, Len(fr1.pend), <<>>, <<>> >>)
      fr == [fr1 EXCEPT !.real = e.real, !.indexMap = e.indexMap]
      st1 == [e.st EXCEPT !.frames[fid] = fr]
  IN IF Len(fr.real) = 0 THEN Settle(st1, fr.promise, TRUE, Arr(fr.result))
     ELSE LET rows == Rows(st1, fr.dvl)
              st2 == LogExecution(st1, fr.plan, [i \in 1..Len(fr.real) |-> fr.real[i].p], rows)
          IN IF P.mode = "throw"
             THEN Settle(LogCompletion(st2, fr.plan), fr.promise, FALSE, Exc(fr.plan))
             ELSE LET p == NewPromise(st2)
                      st3 == [p.st EXCEPT !.pendingExecutes =
                                Append(@, [promise |-> p.id, plan |-> fr.plan, rows |-> rows])]
                  IN Then(st3, Prom(p.id), Waiter(fid, "execute", 0))

RECURSIVE PendingItems(_, _, _)
PendingItems(st, fid, i) ==
  LET fr == st.frames[fid]
      P == Plan(fr.plan)
  IN IF i > Len(fr.real) THEN Settle(st, fr.promise, TRUE, Arr(fr.result))
     ELSE LET rawPendingResult ==
                IF Len(P.dependencies) > 0 \/ P.hasSideEffects
                THEN Get(st.arrays[fr.execRes], i)
                ELSE Get(st.arrays[fr.execRes], 1)
          IN IF isPromiseLike(rawPendingResult)
             THEN Then(st, rawPendingResult, Waiter(fid, "item", i))
             ELSE LET st1 == [st EXCEPT !.arrays[fr.result][fr.indexMap[i]] = rawPendingResult]
                  IN PendingItems(PRSet(st1, fr.real[i].p, P.commonAncestorPathIdentity,
                                        fr.plan, rawPendingResult), fid, i + 1)

PendingItemSettled(st, fid, i, ok, v) ==
  LET fr == st.frames[fid]
      e == IF ok THEN [st |-> st, v |-> v] ELSE NewCrystalError(st, v)
      st1 == [e.st EXCEPT !.arrays[fr.result][fr.indexMap[i]] = e.v]
  IN Run("PendingItems", PRSet(st1, fr.real[i].p, Plan(fr.plan).commonAncestorPathIdentity,
                        fr.plan, e.v), << fid, i + 1 >>)

PendingDependency(st, fid, d) ==
  LET fr == st.frames[fid]
      r == Run("executePlan", st, << Plan(fr.plan).dependencies[d], fr.pend, fr.pcache >>)
  IN IF r.ret.k = "throw" THEN Settle(r.st, fr.promise, FALSE, r.ret.a[1])
     ELSE Then(r.st, r.ret, Waiter(fid, "dependency", d))

PendingDependencySettled(st, fid, d, ok, v) ==
  LET fr == st.frames[fid]
  IN IF ~ok THEN Settle(st, fr.promise, FALSE, v)
     ELSE LET st1 == [st EXCEPT !.frames[fid].dvl[d] = v.p]
          IN IF d < Len(Plan(fr.plan).dependencies)
             THEN Run("PendingDependency", st1, << fid, d + 1 >>)
             ELSE Run("PendingExecute", st1, << fid >>)

PendingExecuteSettled(st, fid, ok, v) ==
  IF ~ok THEN Settle(st, st.frames[fid].promise, FALSE, v)
  ELSE Run("PendingItems", [st EXCEPT !.frames[fid].execRes = v.p], << fid, 1 >>)

executePlanPending(st, plan, pend, pcache) ==
  LET p == NewPromise(st)
      nd == Len(Plan(plan).dependencies)
      a == IF nd > 0 THEN [st |-> p.st, id |-> 0]
           ELSE NoDependencyValues(p.st, plan, Len(pend))
      f == NewFrame(a.st, [Frame0 EXCEPT !.kind = "pending", !.plan = plan,
                             !.pend = pend, !.pcache = pcache, !.promise = p.id,
                             !.dvl = IF nd > 0 THEN [d \in 1..nd |-> 0] ELSE <<a.id>>])
  IN Ret(IF nd > 0 THEN Run("PendingDependency", f.st, << f.id, 1 >>) ELSE Run("PendingExecute", f.st, << f.id >>),
         Prom(p.id))

(* --- executePlanOld -------------------------------------------------- *)

(* The loop over planResultses: entries with a value are copied, entries  *)
(* whose bucket has a deferred wait for it, the others register one.      *)
RECURSIVE OldLoop(_, _, _)
OldLoop(st, fr, i) ==
  IF i > Len(fr.prs) THEN [st |-> st, fr |-> fr, thrown |-> FALSE]
  ELSE LET P == Plan(fr.plan)
           capi == P.commonAncestorPathIdentity
           planResultsI == fr.prs[i]
       IN IF planResultsI.k # "pr"
          THEN OldLoop([st EXCEPT !.arrays[fr.result][i] = planResultsI], fr, i + 1)
          ELSE IF PRHas(st, planResultsI.p, capi, fr.plan)
          THEN OldLoop([st EXCEPT !.arrays[fr.result][i] =
                           PRGet(st, planResultsI.p, capi, fr.plan)], fr, i + 1)
          ELSE IF P.kind = "value"
          THEN [st |-> st, fr |-> fr, thrown |-> TRUE]
          ELSE LET bucket == getBucket(st, planResultsI.p, capi)
                   deferred == st.inProgressPlanResolutions[fr.plan][bucket]
               IN IF deferred # 0
                  THEN OldLoop(st, [fr EXCEPT !.inpDefs = Append(@, deferred),
                                              !.inpIdxs = Append(@, i),
                                              !.inpVals = Append(@, Absent)], i + 1)
                  ELSE LET p == NewPromise(st)
                       IN OldLoop([p.st EXCEPT
                                     !.inProgressPlanResolutions[fr.plan][bucket] = p.id],
                                  [fr EXCEPT !.pend = Append(@, planResultsI),
                                             !.defs = Append(@, p.id),
                                             !.idxs = Append(@, i)], i + 1)

(* Promise.all([handlePendingPromise, handleInProgressPromise]).then(...) *)
OldComplete(st, fid) ==
  LET fr == st.frames[fid]
  IN IF fr.hi = "rejected" THEN Settle(st, fr.promise, FALSE, fr.hiError)
     ELSE IF fr.hp = "fulfilled" /\ fr.hi = "fulfilled"
     THEN Settle(st, fr.promise, TRUE, Arr(fr.result))
     ELSE st

RECURSIVE OldSettleDeferreds(_, _, _, _, _)
OldSettleDeferreds(st, fr, i, ok, v) ==
  IF i > Len(fr.pend) THEN st
  ELSE LET bucket == getBucket(st, fr.pend[i].p, Plan(fr.plan).commonAncestorPathIdentity)
           st1 == [st EXCEPT !.inProgressPlanResolutions[fr.plan][bucket] = 0]
       IN IF ok
          THEN LET r == Get(st.arrays[v.p], i)
                   st2 == [st1 EXCEPT !.arrays[fr.result][fr.idxs[i]] = r]
               IN OldSettleDeferreds(Settle(st2, fr.defs[i], TRUE, r), fr, i + 1, ok, v)
          ELSE LET e == NewCrystalError(st1, v)
                   st2 == [e.st EXCEPT !.arrays[fr.result][fr.idxs[i]] = e.v]
               IN OldSettleDeferreds(Settle(st2, fr.defs[i], FALSE, v), fr, i + 1, ok, v)

handlePendingPromiseFulfilledOnly(st, fid, ok, v) ==
  LET st1 == IF ok THEN Run("OldSettleDeferreds", st, << st.frames[fid], 1, ok, v >>)
             ELSE st
  IN Run("OldComplete", [st1 EXCEPT !.frames[fid].hp = "fulfilled"], << fid >>)

handlePendingPromise(st, fid, ok, v) ==
  LET st1 == Run("OldSettleDeferreds", st, << st.frames[fid], 1, ok, v >>)
  IN Run("OldComplete", [st1 EXCEPT !.frames[fid].hp = "fulfilled"], << fid >>)

RECURSIVE WriteInProgress(_, _, _)
WriteInProgress(st, fr, i) ==
  IF i > Len(fr.inpIdxs) THEN st
  ELSE WriteInProgress([st EXCEPT !.arrays[fr.result][fr.inpIdxs[i]] = fr.inpVals[i]],
                       fr, i + 1)

handleInProgressPromise(st, fid, i, ok, v) ==
  LET fr == st.frames[fid]
  IN IF fr.hi # "pending" THEN st
     ELSE IF ~ok
     THEN Run("OldComplete", [st EXCEPT !.frames[fid].hi = "rejected",
                                 !.frames[fid].hiError = v], << fid >>)
     ELSE LET fr1 == [fr EXCEPT !.inpVals[i] = v]
          IN IF \E j \in 1..Len(fr1.inpVals) : fr1.inpVals[j] = Absent
             THEN [st EXCEPT !.frames[fid] = fr1]
             ELSE Run("OldComplete", [Run("WriteInProgress", st, << fr1, 1 >>) EXCEPT
                                 !.frames[fid] = [fr1 EXCEPT !.hi = "fulfilled"]], << fid >>)

RECURSIVE AwaitInProgress(_, _, _)
AwaitInProgress(st, fid, i) ==
  IF i > Len(st.frames[fid].inpDefs) THEN st
  ELSE AwaitInProgress(Then(st, Prom(st.frames[fid].inpDefs[i]),
                            Waiter(fid, "handleInProgress", i)), fid, i + 1)

executePlanOld(st, plan, prs, cache) ==
  IF Plan(plan).kind = "item" THEN Run("ItemPlanValues", st, << plan, prs >>)
  ELSE
    LET res == NewArray(st, [i \in 1..Len(prs) |-> Undefined])
        l == Run("OldLoop", res.st, << [Frame0 EXCEPT !.kind = "old", !.plan = plan, !.prs = prs,
                                            !.cache = cache, !.result = res.id], 1 >>)
    IN IF l.thrown THEN Ret(l.st, Throw(Exc(plan)))
       ELSE IF Len(l.fr.pend) = 0 /\ Len(l.fr.inpDefs) = 0 THEN Ret(l.st, Arr(res.id))
       ELSE
         LET c == IF Len(l.fr.pend) = Len(prs) THEN [st |-> l.st, id |-> cache]
                  ELSE NewCache(l.st)
             pendingResultsPromise ==
               IF Len(l.fr.pend) > 0
               THEN Run("executePlanPending", c.st, << plan, l.fr.pend, c.id >>)
               ELSE LET a == NewArray(c.st, <<>>)
                        p == NewPromise(a.st)
                    IN Ret(Settle(p.st, p.id, TRUE, Arr(a.id)), Prom(p.id))
             p == NewPromise(pendingResultsPromise.st)
             f == NewFrame(p.st, [l.fr EXCEPT !.pcache = c.id, !.promise = p.id,
                                    !.hi = IF Len(l.fr.inpDefs) = 0
                                           THEN "fulfilled" ELSE "pending"])
             st1 == Then(f.st, pendingResultsPromise.ret, Waiter(f.id, "handlePending", 0))
         IN Ret(Run("AwaitInProgress", st1, << f.id, 1 >>), Prom(p.id))

(* --- executePlanAlt -------------------------------------------------- *)

(* doNext: the loop that builds the dependency values to feed to execute  *)
(* and short-circuits the buckets with an error among them.               *)
RECURSIVE DoNextErrors(_, _, _, _)
DoNextErrors(st, fr, index, toExecute) ==
  IF index = 0 THEN [st |-> st, toExecute |-> toExecute]
  ELSE LET error == FirstError(st, fr.dvl, 1, index)
       IN IF error # Absent
          THEN LET list == fr.lists[index]
                   st1 == FillResult(st, fr.result, list, error)
                   st2 == PRSet(st1, fr.prs[list[1]].p,
                                Plan(fr.plan).commonAncestorPathIdentity, fr.plan, error)
               IN DoNextErrors(SpliceAll(st2, fr.dvl, 1, index), fr, index - 1, toExecute)
          ELSE DoNextErrors(st, fr, index - 1, Append(toExecute, fr.lists[index]))

(* The loop that writes the value of each executed bucket *)
RECURSIVE WriteExecuted(_, _, _, _, _, _)
WriteExecuted(st, fr, toExecute, executableIndex, crystalError, executionResults) ==
  IF executableIndex > Len(toExecute) THEN st
  ELSE LET P == Plan(fr.plan)
           list == toExecute[executableIndex]
           value == IF crystalError # Absent THEN crystalError
                    ELSE IF Len(P.dependencies) > 0 \/ P.hasSideEffects
                    THEN Get(executionResults, executableIndex)
                    ELSE Get(executionResults, 1)
           st1 == FillResult(st, fr.result, list, value)
           st2 == PRSet(st1, fr.prs[list[1]].p, P.commonAncestorPathIdentity,
                        fr.plan, value)
       IN WriteExecuted(st2, fr, toExecute, executableIndex + 1, crystalError,
                        executionResults)

doNext(st, fr) ==
  LET P == Plan(fr.plan)
      hasDependencies == Len(P.dependencies) > 0
      e == IF hasDependencies
           THEN Run("DoNextErrors", st, << fr, Len(fr.pend), <<>> >>)
           ELSE [st |-> st, toExecute |-> fr.lists]
      toExecute == Reverse(e.toExecute)
  IN IF Len(toExecute) = 0 THEN Ret(e.st, Arr(fr.result))
     ELSE IF P.sync /\ P.kind # "listTransform" /\ ~P.stream
     THEN LET rows == Rows(e.st, fr.dvl)
              st1 == LogCompletion(LogExecution(e.st, fr.plan,
                       [i \in 1..Len(toExecute) |-> fr.prs[toExecute[i][1]].p], rows),
                       fr.plan)
              c == IF P.mode = "throw" THEN NewCrystalError(st1, Exc(fr.plan))
                   ELSE [st |-> st1, v |-> Absent]
          IN Ret(Run("WriteExecuted", c.st, << fr, toExecute, 1, c.v, ExecuteResults(fr.plan, rows) >>),
                 Arr(fr.result))
     ELSE Run("executePlanOld", e.st, << fr.plan, fr.prs, fr.cache >>)

(* awaitDependencyPromises: the re-evaluation of the pending buckets      *)
RECURSIVE ReEvaluate(_, _, _)
ReEvaluate(st, fr, index) ==
  IF index = 0 THEN [st |-> st, fr |-> fr]
  ELSE LET capi == Plan(fr.plan).commonAncestorPathIdentity
       IN IF PRHas(st, fr.pend[index].p, capi, fr.plan)
          THEN LET st1 == FillResult(st, fr.result, fr.lists[index],
                                     PRGet(st, fr.pend[index].p, capi, fr.plan))
               IN ReEvaluate(SpliceAll(st1, fr.dvl, 1, index),
                             [fr EXCEPT !.pend = Splice(@, index),
                                        !.lists = Splice(@, index)], index - 1)
          ELSE ReEvaluate(st, fr, index - 1)

RECURSIVE FillAll(_, _, _, _)
FillAll(st, fr, i, v) ==
  IF i > Len(fr.lists) THEN st
  ELSE FillAll(FillResult(st, fr.result, fr.lists[i], v), fr, i + 1, v)

awaitDependencyPromises(st, fid, k) ==
  LET fr == st.frames[fid]
  IN IF k <= Len(fr.dps)
     THEN Then(st, Prom(fr.dps[k].promise), Waiter(fid, "await", k))
     ELSE LET e == Run("ReEvaluate", st, << fr, Len(fr.pend) >>)
              st1 == [e.st EXCEPT !.frames[fid] = e.fr]
          IN IF Len(e.fr.pend) = 0 THEN Settle(st1, fr.promise, TRUE, Arr(fr.result))
             ELSE LET r == Run("doNext", st1, << e.fr >>)
                  IN IF r.ret.k = "throw" THEN Settle(r.st, fr.promise, FALSE, r.ret.a[1])
                     ELSE Settle(r.st, fr.promise, TRUE, r.ret)

awaitSettled(st, fid, k, ok, v) ==
  LET fr == st.frames[fid]
  IN IF ok
     THEN Run("awaitDependencyPromises", [st EXCEPT !.frames[fid].dvl[fr.dps[k].dependencyIndex] = v.p], << fid, k + 1 >>)
     ELSE LET e == NewCrystalError(st, v)
          IN Settle(Run("FillAll", e.st, << fr, 1, e.v >>), fr.promise, TRUE, Arr(fr.result))

AltDependencies(st, fr, d) ==
  IF d > Len(Plan(fr.plan).dependencies)
  THEN IF Len(fr.dps) > 0
       THEN LET p == NewPromise(st)
                f == NewFrame(p.st, [fr EXCEPT !.promise = p.id])
            IN Ret(Run("awaitDependencyPromises", f.st, << f.id, 1 >>), Prom(p.id))
       ELSE Run("doNext", st, << fr >>)
  ELSE LET r == Run("executePlan", st, << Plan(fr.plan).dependencies[d], fr.pend, fr.pcache >>)
       IN IF r.ret.k = "throw" THEN r
          ELSE IF isPromiseLike(r.ret)
          THEN AltDependencies(r.st,
                 [fr EXCEPT !.dps = Append(@, [promise |-> r.ret.p, dependencyIndex |-> d])],
                 d + 1)
          ELSE AltDependencies(r.st, [fr EXCEPT !.dvl[d] = r.ret.p], d + 1)

executePlanAlt(st, plan, prs, cache) ==
  IF Plan(plan).kind = "item" THEN Run("ItemPlanValues", st, << plan, prs >>)
  ELSE
    LET P == Plan(plan)
        n == Len(prs)
        live(i) == prs[i].k = "pr"
        bucketAt(i) == getBucket(st, prs[i].p, P.commonAncestorPathIdentity)
        \* planResultsesByBucket, in insertion order
        firsts == SelectSeq(Iota(n), LAMBDA i :
                    live(i) /\ \A j \in 1..(i - 1) : ~(live(j) /\ bucketAt(j) = bucketAt(i)))
        group(i) == SelectSeq(Iota(n), LAMBDA j : live(j) /\ bucketAt(j) = bucketAt(i))
        pendingFirsts == SelectSeq(firsts, LAMBDA i : st.buckets[bucketAt(i)][plan] = Absent)
        lists == [m \in 1..Len(pendingFirsts) |-> group(pendingFirsts[m])]
        res == NewArray(st, [i \in 1..n |->
                 IF ~live(i) THEN prs[i]
                 ELSE IF st.buckets[bucketAt(i)][plan] # Absent
                 THEN st.buckets[bucketAt(i)][plan] ELSE Undefined])
    IN IF Len(lists) > 0 /\ P.kind = "value" THEN Ret(st, Throw(Exc(plan)))
       ELSE IF Len(lists) = 0 THEN Ret(res.st, Arr(res.id))
       ELSE
         LET pend == [m \in 1..Len(lists) |-> prs[lists[m][1]]]
             c == IF Len(pend) = n THEN [st |-> res.st, id |-> cache] ELSE NewCache(res.st)
             nd == Len(P.dependencies)
             a == IF nd > 0 THEN [st |-> c.st, id |-> 0]
                  ELSE NoDependencyValues(c.st, plan, Len(pend))
         IN Run("AltDependencies", a.st, << [Frame0 EXCEPT !.kind = "alt", !.plan = plan, !.prs = prs, !.cache = cache,
                             !.result = res.id, !.lists = lists, !.pend = pend,
                             !.pcache = c.id,
                             !.dvl = IF nd > 0 THEN [d \in 1..nd |-> 0] ELSE <<a.id>>], 1 >>)

executePlanMemoOnPlan(st, plan, prs, cache) ==
  IF st.caches[cache][plan] # Absent THEN Ret(st, st.caches[cache][plan])
  ELSE LET r == Run("executePlanAlt", st, << plan, prs, cache >>)
       IN IF r.ret.k = "throw" THEN r
          ELSE Ret([r.st EXCEPT !.caches[cache][plan] = r.ret,
                                !.aether.plans[plan].dependencies = <<>>], r.ret)

executePlan(st, plan, prs, cache) ==
  IF st.caches[cache][plan] # Absent THEN Ret(st, st.caches[cache][plan])
  ELSE LET r == Run("executePlanAlt", st, << plan, prs, cache >>)
       IN IF r.ret.k = "throw" THEN r
          ELSE Ret([r.st EXCEPT !.caches[cache][plan] = r.ret], r.ret)

(* --- executeBatchForPlanResultses ------------------------------------ *)
(* A call is described by a frame: the path identity and field digest,    *)
(* the side-effect plans, the plan and item plan, the PlanResultses, the  *)
(* plan cache and allowPrefetch.  The fields modelled have no list        *)
(* boundary of their own, so that the layers are the field's plan alone.  *)


(* A .then callback returned or threw: settle the promise .then returned *)
SettleWith(st, promise, r) ==
  IF r.ret.k = "throw" THEN Settle(r.st, promise, FALSE, r.ret.a[1])
  ELSE Settle(r.st, promise, TRUE, r.ret)

(* Promise.all(promises).then(...): wait for every promise of fr.dps *)
RECURSIVE AwaitAll(_, _, _, _)
AwaitAll(st, fid, tag, k) ==
  IF k > Len(st.frames[fid].dps) THEN st
  ELSE AwaitAll(Then(st, Prom(st.frames[fid].dps[k].promise), Waiter(fid, tag, k)),
                fid, tag, k + 1)

(* processResults: the loop that makes a crystal object of every entry    *)
(* whose item plan has data                                               *)
RECURSIVE crystalObjectsFromPlanResults(_, _, _, _, _)
crystalObjectsFromPlanResults(st, fr, i, result, hasAtLeastOneNonError) ==
  IF i > Len(fr.final)
  THEN [st |-> st, result |-> result, hasAtLeastOneNonError |-> hasAtLeastOneNonError]
  ELSE LET childPlanResults == fr.final[i]
       IN IF IsNullish(childPlanResults)
          THEN crystalObjectsFromPlanResults(st, fr, i + 1, Append(result, Null),
                                             hasAtLeastOneNonError)
          ELSE IF IsCrystalError(childPlanResults)
          THEN LET p == NewPromise(st)
               IN crystalObjectsFromPlanResults(
                    Settle(p.st, p.id, FALSE, childPlanResults.a[1]), fr, i + 1,
                    Append(result, Prom(p.id)), hasAtLeastOneNonError)
          ELSE LET data == PRGet(st, childPlanResults.p,
                                 Plan(fr.itemPlan).commonAncestorPathIdentity, fr.itemPlan)
               IN IF IsNullish(data) \/ IsCrystalError(data)
                  THEN crystalObjectsFromPlanResults(st, fr, i + 1, Append(result, data),
                                                     hasAtLeastOneNonError)
                  ELSE crystalObjectsFromPlanResults(
                         [st EXCEPT !.crystalObjects =
                            Append(@, [pathIdentity |-> fr.path,
                                       planResults |-> childPlanResults.p,
                                       data |-> [f \in FieldIds |-> Absent]])],
                         fr, i + 1, Append(result, Obj(Len(st.crystalObjects) + 1)), TRUE)

(* storeResults: result[i][$$data][responseKey] = subResults[i] *)
storeResults(st, fr, responseKey, subResults) ==
  LET result == st.arrays[fr.result]
      at(o) == {i \in 1..Len(result) : result[i] = Obj(o)}
  IN [st EXCEPT !.crystalObjects =
        [o \in 1..Len(@) |->
           IF at(o) = {} THEN @[o]
           ELSE [@[o] EXCEPT !.data[responseKey] =
                   Get(st.arrays[subResults], CHOOSE i \in at(o) : TRUE)]]]

(* The two prefetch loops of processResults: the local plans, executed as *)
(* a batch of their own without prefetch, and the child fields, executed  *)
(* with no side-effect plans and their results stored on the objects.     *)
RECURSIVE Prefetch(_, _, _, _, _)
Prefetch(st, fr, stage, k, subPromises) ==
  LET config == aether.prefetchesForPathIdentity[fr.field]
      n == IF stage = "local" THEN Len(config.local) ELSE Len(config.children)
  IN IF k > n THEN [st |-> st, promises |-> subPromises, thrown |-> Absent]
     ELSE LET r == Run("executeBatchForPlanResultses", st, << IF stage = "local"
                     THEN [Frame0 EXCEPT !.kind = "batch",
                             !.path = Field(fr.field).itemPathIdentity, !.field = fr.field,
                             !.plan = config.local[k], !.itemPlan = config.local[k],
                             !.prs = fr.final, !.cache = fr.cache, !.allow = FALSE]
                     ELSE [Frame0 EXCEPT !.kind = "batch",
                             !.path = Field(config.children[k]).pathIdentity,
                             !.field = config.children[k],
                             !.plan = Field(config.children[k]).planId,
                             !.itemPlan = Field(config.children[k]).itemPlanId,
                             !.prs = fr.final, !.cache = fr.cache, !.allow = TRUE] >>)
              key == IF stage = "local" THEN k ELSE config.children[k]
          IN IF r.ret.k = "throw"
             THEN [st |-> r.st, promises |-> subPromises, thrown |-> r.ret]
             ELSE IF isPromiseLike(r.ret)
             THEN Prefetch(r.st, fr, stage, k + 1,
                           Append(subPromises, [promise |-> r.ret.p, dependencyIndex |-> key]))
             ELSE Prefetch(IF stage = "local" THEN r.st
                           ELSE Run("storeResults", r.st, << fr, key, r.ret.p >>),
                           fr, stage, k + 1, subPromises)

(* Either loop, then the promise of its asynchronous sub-results if any *)
PrefetchStage(st, fr, stage) ==
  LET l == Run("Prefetch", st, << fr, stage, 1, <<>> >>)
  IN IF l.thrown # Absent THEN Ret(l.st, l.thrown)
     ELSE IF Len(l.promises) = 0 THEN Ret(l.st, Absent)
     ELSE LET p == NewPromise(l.st)
              f == NewFrame(p.st, [fr EXCEPT !.promise = p.id, !.dps = l.promises,
                                             !.wait = Len(l.promises)])
          IN Ret(Run("AwaitAll", f.st, << f.id, stage, 1 >>), Prom(p.id))

siblingsComplete(st, fr) ==
  LET r == Run("PrefetchStage", st, << fr, "children" >>)
  IN IF r.ret = Absent THEN Ret(r.st, Arr(fr.result)) ELSE r

processResults(st, fr0, childPlanResultses) ==
  LET fr1 == [fr0 EXCEPT !.final = childPlanResultses]
      m == Run("crystalObjectsFromPlanResults", st, << fr1, 1, <<>>, FALSE >>)
      a == NewArray(m.st, m.result)
      fr == [fr1 EXCEPT !.result = a.id]
  IN IF fr.allow /\ m.hasAtLeastOneNonError
     THEN LET r == Run("PrefetchStage", a.st, << fr, "local" >>)
          IN IF r.ret = Absent THEN Run("siblingsComplete", r.st, << fr >>) ELSE r
     ELSE Ret(a.st, Arr(a.id))

(* One of the awaited sub-results of a prefetch loop settled *)
PrefetchSettled(st, fid, stage, k, ok, v) ==
  LET fr == st.frames[fid]
  IN IF ~ok THEN Settle(st, fr.promise, FALSE, v)
     ELSE LET st1 == IF stage = "local" THEN st
                     ELSE Run("storeResults", st, << fr, fr.dps[k].dependencyIndex, v.p >>)
              st2 == [st1 EXCEPT !.frames[fid].wait = @ - 1]
          IN IF fr.wait > 1 THEN st2
             ELSE IF stage = "local" THEN Run("SettleWith", st2, << fr.promise, Run("siblingsComplete", st2, << fr >>) >>)
             ELSE Settle(st2, fr.promise, TRUE, Arr(fr.result))

(* executeLayers, for a layer plan that is no __ItemPlan and is the last *)
finalizeLayerResults(st, fr, layerResults) ==
  Run("processResults", st, << fr,
    [i \in 1..Len(fr.prs) |->
       IF IsCrystalError(Get(st.arrays[layerResults], i))
       THEN Get(st.arrays[layerResults], i) ELSE fr.prs[i]] >>)

executeLayers(st, fr) ==
  IF Len(fr.prs) = 0 THEN LET a == NewArray(st, <<>>) IN Ret(a.st, Arr(a.id))
  ELSE LET r == Run("executePlan", st, << fr.plan, fr.prs, fr.cache >>)
       IN IF r.ret.k = "throw" THEN r
          ELSE IF isPromiseLike(r.ret)
          THEN LET p == NewPromise(r.st)
                   f == NewFrame(p.st, [fr EXCEPT !.promise = p.id])
               IN Ret(Then(f.st, r.ret, Waiter(f.id, "layer", 0)), Prom(p.id))
          ELSE Run("finalizeLayerResults", r.st, << fr, r.ret.p >>)

executeBatchInner(st, fr) == Run("executeLayers", st, << fr >>)

(* chain = chain.then(callback): the callback with index i runs once the  *)
(* value the previous callback returned has settled                       *)
ChainEager(st, previous, fid, i) == Then(st, Undefined, Waiter(fid, "chain", i))
chainThen(st, previous, fid, i) == Then(st, previous, Waiter(fid, "chain", i))

executeBatchForPlanResultses(st, fr) ==
  IF Len(fr.se) > 0
  THEN LET p == NewPromise(st)
           f == NewFrame(p.st, [fr EXCEPT !.promise = p.id])
       IN Ret(Run("chainThen", f.st, << Undefined, f.id, 1 >>), Prom(p.id))
  ELSE Run("executeBatchInner", st, << fr >>)

(* The callbacks of the chain: one executePlan per side-effect plan, with *)
(* a plan cache of its own, then executeBatchInner                        *)
chainCallback(st, fid, i, ok, v) ==
  LET fr == st.frames[fid]
  IN IF ~ok THEN Settle(st, fr.promise, FALSE, v)
     ELSE IF i <= Len(fr.se)
     THEN LET c == NewCache(st)
              r == Run("executePlan", c.st, << fr.se[i], fr.prs, c.id >>)
          IN IF r.ret.k = "throw" THEN Settle(r.st, fr.promise, FALSE, r.ret.a[1])
             ELSE Run("chainThen", r.st, << r.ret, fid, i + 1 >>)
     ELSE Run("SettleWith", st, << fr.promise, Run("executeBatchInner", st, << fr >>) >>)

(* executeBatch after its await: settle the deferred of every entry *)
SettleNone(st, defs, i, ok, v) == st

RECURSIVE SettleEntries(_, _, _, _, _)
SettleEntries(st, defs, i, ok, v) ==
  IF i > Len(defs) THEN st
  ELSE SettleEntries(Settle(st, defs[i], ok,
                            IF ok THEN Get(st.arrays[v.p], i) ELSE v),
                     defs, i + 1, ok, v)

(* The compiler: the constructor of Aether and the passes it runs.  The   *)
(* record c is `this`.  Plan objects live in c.objects, indexed by their  *)
(* id; c.plans[i] is the id of the object held by slot `_i`, 0 for null.  *)
(* A plan given as 0 is a null reference.                                 *)

Put(m, k, v) == [x \in DOMAIN m \cup {k} |-> IF x = k THEN v ELSE m[x]]
Lookup0(m, k) == IF k \in DOMAIN m THEN m[k] ELSE 0
Raise(c, e) == [c EXCEPT !.error = e]

(* A plan object before its constructor has registered it.  The methods   *)
(* deduplicate, optimize, finalize and itemPlanCallback belong to the     *)
(* plan classes; here they are behaviours the plan carries.               *)
NewPlan(kind, parentPathIdentity, dependencies, hasSideEffects) ==
  [id |-> 0, kind |-> kind, parentPathIdentity |-> parentPathIdentity,
   dependencies |-> dependencies, hasSideEffects |-> hasSideEffects,
   groupIds |-> <<>>, commonAncestorPathIdentity |-> "",
   stream |-> FALSE, initialCount |-> 0, streamable |-> FALSE,
   deduplicate |-> "self",
   optimize |-> "self", finalize |-> "ok", itemPlanCallback |-> "item"]

_addPlanInAnyPhase(c, plan) ==
  [c EXCEPT !.planCount = @ + 1,
            !.plans = Append(@, c.planCount + 1),
            !.objects = Append(@, [plan EXCEPT !.id = c.planCount + 1])]

_addPlan(c, plan) ==
  IF c.phase \notin {"plan", "validate", "deduplicate", "optimize"}
  THEN Raise(c, "Creating a plan during this phase is forbidden.")
  ELSE [c EXCEPT !.planCount = @ + 1,
                 !.plans = Append(@, c.planCount + 1),
                 !.objects = Append(@, [plan EXCEPT !.id = c.planCount + 1])]

_addModifierPlan(c, plan) ==
  IF c.phase \notin {"plan", "validate", "deduplicate", "optimize"}
  THEN Raise(c, "Creating a plan during this phase is forbidden.")
  ELSE [c EXCEPT !.modifierPlanCount = @ + 1,
                 !.modifierPlans = Append(@, plan)]

getPlanIds(c, offset) == [i \in 1..(Len(c.plans) - offset) |-> i + offset]

(* finalizeArgumentsSince, the branch for a __ListTransformPlan: the item *)
(* plan of the transform is planned under a nested path identity          *)
ListTransformItemPlan(c, newPlan, pathIdentity) ==
  LET nested == pathIdentity \o "@" \o ToString(newPlan.id) \o "[]"
      listPlan == newPlan.dependencies[1]
      c1 == _addPlan(c, NewPlan("__ItemPlan", nested, <<listPlan>>, FALSE))
      c2 == IF newPlan.itemPlanCallback = "item" THEN c1
            ELSE _addPlan(c1, NewPlan("each", nested, <<c1.planCount>>,
                                      newPlan.itemPlanCallback = "effect"))
  IN [c2 EXCEPT !.planIdByPathIdentity = Put(@, nested, c2.planCount),
                !.transformDependencyPlanIdByTransformPlanId =
                  Put(@, newPlan.id, c2.planCount)]

(* finalizeArgumentsSince: the loop over the ids it read when it started  *)
RECURSIVE finalizeArgumentsSince(_, _, _, _, _)
finalizeArgumentsSince(c, i, last, pathIdentity, allowSideEffects) ==
  IF c.error # "" \/ i > last THEN c
  ELSE LET newPlan == c.plans[i]
       IN IF newPlan = 0 \/ c.plans[newPlan] # newPlan
          THEN finalizeArgumentsSince(c, i + 1, last, pathIdentity, allowSideEffects)
          ELSE LET p == c.objects[newPlan]
                   c1 == IF p.hasSideEffects
                         THEN [c EXCEPT !.sideEffectPlanIdsByPathIdentity[pathIdentity] =
                                          Append(@, newPlan)]
                         ELSE c
                   c2 == IF p.kind = "__ListTransformPlan"
                         THEN ListTransformItemPlan(c1, p, pathIdentity)
                         ELSE c1
                   c3 == [c2 EXCEPT !.argumentsFinalized = Append(@, newPlan)]
               IN IF p.hasSideEffects /\ ~allowSideEffects
                  THEN Raise(c, "Side effects are not allowed here")
                  ELSE finalizeArgumentsSince(c3, i + 1, last, pathIdentity,
                                              allowSideEffects)

(* walkTreeFirstPlanUsages with the callbacks of its two callers: the      *)
(* group ids of the field of the tree node are added to the plan, and the  *)
(* tree node is added to the tree nodes of the plan                        *)
RECURSIVE processPlan(_, _, _, _)
processPlan(c, node, plan, knownPlans) ==
  IF c.error # "" \/ plan \in knownPlans THEN Ret(c, knownPlans)
  ELSE IF plan = 0 THEN Ret(Raise(c, "TypeError: plan is null"), knownPlans)
  ELSE
    LET p == c.objects[plan]
        treeNode == c.treeNodes[node]
        transformPathIdentity == treeNode.pathIdentity \o "@" \o ToString(plan) \o "[]"
        c1 == IF /\ p.kind = "__ListTransformPlan"
                 /\ \A k \in Range(treeNode.children) :
                      c.treeNodes[k].pathIdentity # transformPathIdentity
              THEN [c EXCEPT
                      !.treeNodes = Append([@ EXCEPT ![node].children =
                                                     Append(@, Len(c.treeNodes) + 1)],
                                           [parent |-> node,
                                            pathIdentity |-> transformPathIdentity,
                                            children |-> <<>>,
                                            groupIds |-> treeNode.groupIds,
                                            fieldPathIdentity |-> treeNode.fieldPathIdentity]),
                      !.planIdByPathIdentity =
                        Put(@, transformPathIdentity,
                            Lookup0(c.transformDependencyPlanIdByTransformPlanId, plan))]
              ELSE c
        c2 == [c1 EXCEPT !.objects[plan].groupIds =
                 @ \o SelectSeq(c.groupIdsByPathIdentity[treeNode.fieldPathIdentity],
                                LAMBDA groupId : groupId \notin Range(p.groupIds)),
                         !.firstPlanUsages = Append(@, [plan |-> plan, treeNode |-> node])]
        RECURSIVE dependencies(_, _)
        dependencies(r, i) ==
          IF i > Len(p.dependencies) THEN r
          ELSE dependencies(processPlan(r.st, node, r.st.plans[p.dependencies[i]], r.ret),
                            i + 1)
    IN dependencies(Ret(c2, knownPlans \cup {plan}), 1)

RECURSIVE recurse(_, _, _)
recurse(c, node, knownPlans) ==
  LET treeNode == c.treeNodes[node]
      r0 == IF treeNode.parent = 0 /\ c.subscriptionPlanId # 0
            THEN IF c.plans[c.subscriptionPlanId] = 0
                 THEN Ret(Raise(c, "Could not find the plan for the subscription"),
                          knownPlans)
                 ELSE processPlan(c, node, c.plans[c.subscriptionPlanId], knownPlans)
            ELSE Ret(c, knownPlans)
      treeNodePlanId == Lookup0(c.planIdByPathIdentity, treeNode.pathIdentity)
      r1 == IF treeNodePlanId = 0 \/ r0.st.plans[treeNodePlanId] = 0
            THEN Ret(Raise(r0.st, "Could not find the plan for path identity"), r0.ret)
            ELSE processPlan(r0.st, node, r0.st.plans[treeNodePlanId], r0.ret)
      RECURSIVE children(_, _)
      children(c1, i) ==
        IF c1.error # "" \/ i > Len(c1.treeNodes[node].children) THEN c1
        ELSE children(recurse(c1, c1.treeNodes[node].children[i], r1.ret), i + 1)
  IN IF c.error # "" THEN c ELSE children(r1.st, 1)

assignNoGroupIds(c) == c

assignGroupIds(c) == [recurse(c, 1, {}) EXCEPT !.firstPlanUsages = c.firstPlanUsages]

StartsWith(string, searchString) ==
  /\ Len(searchString) <= Len(string)
  /\ SubSeq(string, 1, Len(searchString)) = searchString

(* treeNodePath: the tree nodes from the topmost ancestor whose path       *)
(* identity starts with startPathIdentity down to the tree node, cut off   *)
(* before the first node that is the list item of the node above it; <<>>  *)
(* where the function throws                                               *)
treeNodePath(c, treeNode, startPathIdentity) ==
  LET RECURSIVE up(_, _)
      up(n, path) ==
        LET parent == c.treeNodes[n].parent
        IN IF parent # 0 /\ StartsWith(c.treeNodes[parent].pathIdentity, startPathIdentity)
           THEN up(parent, << parent >> \o path)
           ELSE path
      path == up(treeNode, << treeNode >>)
      listChanges == {i \in 2..Len(path) :
                        /\ c.treeNodes[path[i - 1]].fieldPathIdentity
                             = c.treeNodes[path[i]].fieldPathIdentity
                        /\ c.treeNodes[path[i - 1]].pathIdentity
                             # c.treeNodes[path[i]].pathIdentity}
      listChangeIndex == CHOOSE i \in listChanges : \A j \in listChanges : i <= j
  IN IF ~StartsWith(c.treeNodes[treeNode].pathIdentity, startPathIdentity) THEN <<>>
     ELSE IF listChanges = {} THEN path
     ELSE SubSeq(path, 1, listChangeIndex - 1)

(* assignCommonAncestorPathIdentity: the walk of first plan usages, then,  *)
(* for each plan met, the deepest tree node common to the paths of its     *)
(* tree nodes; the group ids are those of assignGroupIds and stay.  The    *)
(* check that every plan has been given one is made when GRAPHILE_ENV is   *)
(* "development"                                                           *)
assignCommonAncestorPathIdentity(c) ==
  LET walked == Compile("recurse", [c EXCEPT !.firstPlanUsages = <<>>], << 1, {} >>)
      usages == walked.firstPlanUsages
      distinct == SelectSeq(Iota(Len(usages)),
                            LAMBDA n : \A k \in 1..(n - 1) : usages[k].plan # usages[n].plan)
      allPaths(plan) ==
        LET mine == SelectSeq(usages, LAMBDA u : u.plan = plan)
        IN [j \in DOMAIN mine |->
              treeNodePath(walked, mine[j].treeNode, walked.objects[plan].parentPathIdentity)]
      deepestCommonPath(paths) ==
        LET matching == {i \in 1..Len(paths[1]) :
                           \A k \in 1..i : \A j \in 2..Len(paths) :
                             Len(paths[j]) >= k /\ paths[j][k] = paths[1][k]}
        IN Cardinality(matching)
      RECURSIVE assign(_, _)
      assign(c0, n) ==
        IF c0.error # "" \/ n > Len(distinct) THEN c0
        ELSE LET plan == usages[distinct[n]].plan
                 paths == allPaths(plan)
                 deepest == deepestCommonPath(paths)
             IN IF \E j \in DOMAIN paths : paths[j] = <<>>
                THEN Raise(c0, "Asked to find treeNodePath to a TreeNode that does not start with the path identity")
                ELSE IF deepest = 0
                THEN Raise(c0, "the root tree node should be in common with every path")
                ELSE assign([c0 EXCEPT
                               !.objects[plan].commonAncestorPathIdentity =
                                 c0.treeNodes[paths[1][deepest]].pathIdentity,
                               !.commonAncestorAssigned = Append(@, plan)],
                            n + 1)
      restored == [walked EXCEPT !.objects =
                     [i \in 1..Len(@) |-> [@[i] EXCEPT !.groupIds = c.objects[i].groupIds]]]
      assigned == assign(restored, 1)
  IN IF c.error # "" THEN c
     ELSE IF walked.error # "" THEN restored
     ELSE IF assigned.error # "" THEN assigned
     ELSE IF \E i \in DOMAIN assigned.plans :
               /\ c.isDev
               /\ assigned.plans[i] # 0
               /\ assigned.objects[assigned.plans[i]].commonAncestorPathIdentity = ""
               /\ assigned.objects[assigned.plans[i]].parentPathIdentity # ""
     THEN Raise(assigned, "Failed to assign commonAncestorPathIdentity")
     ELSE assigned

(* validatePlans: the check for direct references between plans needs the *)
(* fields of the plan classes; what remains is the call of assignGroupIds *)
validatePlans(c, offset) ==
  IF c.error # "" THEN c ELSE Compile("assignGroupIds", c, << >>)

markPlanActiveAlone(c, plan, activePlans) == activePlans \cup {plan}

(* markPlanActive; a 0 in the result records a dereferenced null *)
RECURSIVE markPlanActive(_, _, _)
markPlanActive(c, plan, activePlans) ==
  IF plan \in activePlans THEN activePlans
  ELSE IF plan = 0 THEN activePlans \cup {0}
  ELSE LET deps == c.objects[plan].dependencies
           RECURSIVE visit(_, _)
           visit(i, acc) ==
             IF i > Len(deps) THEN acc
             ELSE visit(i + 1, markPlanActive(c, c.plans[deps[i]], acc))
       IN visit(1, activePlans \cup {plan})

(* The plan ids treeShakePlans starts from *)
activeRoots(c) ==
  (IF c.subscriptionItemPlanId # 0 THEN {c.subscriptionItemPlanId} ELSE {})
  \cup {c.itemPlanIdByFieldPathIdentity[path] :
          path \in DOMAIN c.itemPlanIdByFieldPathIdentity}
  \cup UNION {Range(c.sideEffectPlanIdsByPathIdentity[path]) :
                path \in DOMAIN c.sideEffectPlanIdsByPathIdentity}
  \cup {c.transformDependencyPlanIdByTransformPlanId[t] :
          t \in DOMAIN c.transformDependencyPlanIdByTransformPlanId}

treeShakeNothing(c) ==
  IF c.error # "" THEN c
  ELSE [c EXCEPT !.treeShakes = @ + 1, !.plansBeforeShake = c.plans]

treeShakePlans(c) ==
  LET RECURSIVE markAll(_, _)
      markAll(planIds, marked) ==
        IF planIds = {} THEN marked
        ELSE LET planId == CHOOSE planId \in planIds : TRUE
             IN markAll(planIds \ {planId}, markPlanActive(c, c.plans[planId], marked))
      activePlans == markAll(activeRoots(c), {})
  IN IF c.error # "" THEN c
     ELSE IF 0 \in activePlans THEN Raise(c, "Could not find plan for identifier")
     ELSE [c EXCEPT !.plans = [i \in DOMAIN @ |-> IF @[i] \in activePlans THEN @[i] ELSE 0],
                    !.treeShakes = @ + 1, !.plansBeforeShake = c.plans]

(* isPeer *)
isPeer(c, planA, planB) ==
  LET a == c.objects[planA]
      b == c.objects[planB]
  IN /\ a.kind = b.kind
     /\ a.parentPathIdentity = b.parentPathIdentity
     /\ Len(a.dependencies) = Len(b.dependencies)
     /\ \A i \in 1..Len(a.dependencies) :
          c.plans[a.dependencies[i]] = c.plans[b.dependencies[i]]

deduplicateOnThirdAsking(c, plan, peers) ==
  IF Cardinality({i \in 1..Len(c.deduplicated) : c.deduplicated[i].plan = plan}) < 2
  THEN plan
  ELSE peers[1]

(* plan.deduplicate(peers), by the behaviour of the plan; "stranger" is a *)
(* plan that returns the root value plan                                  *)
deduplicate(c, plan, peers) ==
  CASE c.objects[plan].deduplicate = "self" -> plan
    [] c.objects[plan].deduplicate = "peer" -> peers[1]
    [] c.objects[plan].deduplicate = "stranger" -> c.plans[c.rootValuePlan]

peersIncludesAnything(peers, replacementPlan) == TRUE
peersIncludes(peers, replacementPlan) == replacementPlan \in Range(peers)

deduplicatePlanWithSideEffects(c, plan) ==
  LET peers == SelectSeq(getPlanIds(c, 0),
                 LAMBDA id : c.plans[id] = id /\ id # plan /\ isPeer(c, plan, id))
      replacementPlan == deduplicate(c, plan, peers)
  IN IF peers = <<>> THEN Ret(c, plan)
     ELSE Ret([c EXCEPT !.deduplicated =
                 Append(@, [plan |-> plan, peers |-> peers,
                            replacementPlan |-> replacementPlan, plans |-> c.plans])],
              replacementPlan)

deduplicatePlan(c, plan) ==
  LET p == c.objects[plan]
      peers == SelectSeq(getPlanIds(c, 0),
                 LAMBDA id : /\ c.plans[id] = id
                             /\ ~c.objects[id].hasSideEffects
                             /\ id # plan
                             /\ isPeer(c, plan, id))
      replacementPlan == deduplicate(c, plan, peers)
      called == [c EXCEPT !.deduplicated =
                   Append(@, [plan |-> plan, peers |-> peers,
                              replacementPlan |-> replacementPlan, plans |-> c.plans])]
  IN IF p.hasSideEffects \/ p.stream \/ peers = <<>> THEN Ret(c, plan)
     ELSE IF replacementPlan # plan /\ ~peersIncludes(peers, replacementPlan)
     THEN Ret(Raise(called,
                    "deduplicatePlan error: Expected to replace plan with one of its peers"),
              plan)
     ELSE Ret(called, replacementPlan)

(* plan.optimize(), by the behaviour of the plan *)
optimize(c, plan) ==
  LET p == c.objects[plan]
  IN CASE p.optimize = "self" -> Ret(c, plan)
       [] p.optimize = "dependency" ->
            Ret(c, IF p.dependencies = <<>> THEN plan ELSE c.plans[p.dependencies[1]])
       [] p.optimize = "new" ->
            LET c1 == _addPlan(c, [NewPlan("optimized", p.parentPathIdentity,
                                           p.dependencies, FALSE)
                                     EXCEPT !.streamable = p.streamable])
            IN Ret(c1, c1.planCount)
       [] p.optimize = "constant" ->
            LET c1 == _addPlan(c, NewPlan("constant", p.parentPathIdentity, <<>>, FALSE))
            IN Ret(c1, c1.planCount)

(* The plans of the table that depend on a plan, through the table, and  *)
(* that have not been optimized                                           *)
unoptimizedDependents(c, plan) ==
  {c.plans[j] : j \in {k \in DOMAIN c.plans :
                         /\ c.plans[k] # 0
                         /\ c.plans[k] \notin c.optimizedPlans
                         /\ \E d \in Range(c.objects[c.plans[k]].dependencies) :
                              c.plans[d] = plan}}

optimizePlan(c, plan) ==
  IF plan \in c.optimizedPlans THEN Ret(Raise(c, "Must not optimize plan twice"), plan)
  ELSE LET r == optimize(c, plan)
       IN Ret([r.st EXCEPT !.optimizedPlans = @ \cup {plan},
                           !.optimized = Append(@, plan),
                           !.unoptimizedDependents = Append(@, unoptimizedDependents(c, plan))],
              r.ret)

(* processPlans: the plans to process before a plan, in the order the Set *)
(* `first` yields them                                                     *)
first(c, plan, order) ==
  LET deps == c.objects[plan].dependencies
      slots == IF order = "dependents-first"
               THEN SelectSeq(getPlanIds(c, 0),
                      LAMBDA j : /\ c.plans[j] # 0
                                 /\ \E d \in Range(c.objects[c.plans[j]].dependencies) :
                                      c.plans[d] = plan)
               ELSE deps
      ids == [n \in DOMAIN slots |-> c.plans[slots[n]]]
      distinct == SelectSeq(Iota(Len(ids)), LAMBDA n : \A k \in 1..(n - 1) : ids[k] # ids[n])
  IN [n \in DOMAIN distinct |-> ids[distinct[n]]]

(* The slots of replacementPlan are pointed at plan *)
replacePlanBackwards(c, plan, replacementPlan) ==
  [c EXCEPT !.plans = [j \in DOMAIN @ |-> IF @[j] = replacementPlan THEN plan ELSE @[j]]]

(* Replace all references to plan with replacementPlan *)
replacePlan(c, plan, replacementPlan) ==
  [c EXCEPT !.plans = [j \in DOMAIN @ |-> IF @[j] = plan THEN replacementPlan ELSE @[j]]]

RECURSIVE process(_, _, _, _, _)
process(c, processed, plan, order, action) ==
  IF c.error # "" \/ plan = 0 \/ plan \in processed THEN Ret(c, processed)
  ELSE
    LET ids == first(c, plan, order)
        (* r.ret = <<processed, aborted>> *)
        RECURSIVE before(_, _)
        before(r, i) ==
          IF r.st.error # "" \/ r.ret[2] \/ i > Len(ids) THEN r
          ELSE LET depPlan == r.st.plans[ids[i]]
               IN IF depPlan = 0 \/ depPlan \in r.ret[1] THEN before(r, i + 1)
                  ELSE LET q == process(r.st, r.ret[1], depPlan, order, action)
                       IN before(Ret(q.st, <<q.ret, q.st.plans[plan] = 0>>), i + 1)
        b == before(Ret(c, <<processed, FALSE>>), 1)
        oldPlansLength == b.st.planCount
        called == Compile(action, b.st, << plan >>)
        counted == IF action = "deduplicatePlan" /\ called.ret # plan
                   THEN [called.st EXCEPT !.replacements = @ + 1]
                   ELSE called.st
        finalized == Compile("finalizeArgumentsSince", counted,
                         << oldPlansLength + 1, counted.planCount, "~", FALSE >>)
        replaced == IF called.ret = plan THEN finalized
                    ELSE LET c1 == replacePlan(finalized, plan, called.ret)
                         IN IF action = "optimizePlan"
                            THEN Compile("treeShakePlans", c1, << >>)
                            ELSE c1
    IN IF 0 \in Range(ids)
       THEN Ret(Raise(c, "TypeError: dependency is null"), processed)
       ELSE IF b.st.error # "" \/ b.ret[2] THEN Ret(b.st, b.ret[1])
       ELSE IF called.st.error # "" THEN Ret(called.st, b.ret[1])
       ELSE IF finalized.error # "" THEN Ret(finalized, b.ret[1])
       ELSE Ret(replaced, b.ret[1] \cup {plan})

processPlans(c, order, action, offset) ==
  LET oldPlanCount == c.planCount
      ids == getPlanIds(c, offset)
      RECURSIVE loop(_, _, _)
      loop(c0, processed, i) ==
        IF c0.error # "" \/ i > Len(ids) THEN c0
        ELSE LET r == Compile("process", c0, << processed, c0.plans[ids[i]], order, action >>)
             IN loop(r.st, r.ret, i + 1)
      c1 == loop(c, {}, 1)
  IN IF c1.error = "" /\ c1.planCount > oldPlanCount
     THEN Compile("validatePlans", c1, << oldPlanCount >>)
     ELSE c1

(* One pass, whatever it replaces *)
deduplicatePlansOnePass(c, offset, loops) ==
  [Compile("processPlans", [c EXCEPT !.replacements = 0],
           << "dependencies-first", "deduplicatePlan", offset >>) EXCEPT !.loops = 1]

(* deduplicatePlans: passes until one makes no replacement; loops is the   *)
(* number of passes made                                                   *)
RECURSIVE deduplicatePlans(_, _, _)
deduplicatePlans(c, offset, loops) ==
  IF c.error # "" THEN c
  ELSE IF loops > MaxLoops
  THEN Raise([c EXCEPT !.loops = loops],
             "deduplicatePlans has looped and is still substituting out plans")
  ELSE LET c1 == Compile("processPlans", [c EXCEPT !.replacements = 0],
                     << "dependencies-first", "deduplicatePlan", offset >>)
       IN IF c1.error = "" /\ c1.replacements > 0
          THEN deduplicatePlans(c1, offset, loops + 1)
          ELSE [c1 EXCEPT !.loops = loops + 1]

(* optimizePlans followed by a further deduplicatePlans *)
optimizePlansThenDeduplicate(c) ==
  Compile("deduplicatePlans",
          Compile("processPlans", c, << "dependents-first", "optimizePlan", 0 >>),
          << 0, 0 >>)

optimizePlans(c) ==
  Compile("processPlans", c, << "dependents-first", "optimizePlan", 0 >>)

(* finalize() for every slot that holds a plan, last slot first *)
finalizePlansOfEverySlot(c, i) ==
  [c EXCEPT !.finalized = SelectSeq([k \in 1..i |-> c.plans[i + 1 - k]], LAMBDA plan : plan # 0)]

(* finalizePlans: finalize() on the distinct live plans, last slot first *)
RECURSIVE finalizePlans(_, _)
finalizePlans(c, i) ==
  IF c.error # "" \/ i = 0 THEN c
  ELSE LET plan == c.plans[i]
       IN IF plan = 0 \/ \E j \in (i + 1)..Len(c.plans) : c.plans[j] = plan
          THEN finalizePlans(c, i - 1)
          ELSE finalizePlans(
                 IF c.objects[plan].finalize = "ok"
                 THEN [c EXCEPT !.finalized = Append(@, plan)]
                 ELSE _addPlan(c, NewPlan("late", c.objects[plan].parentPathIdentity,
                                          <<>>, FALSE)),
                 i - 1)

(* A plan resolver, by its recipe: the plans it constructs, in order, and  *)
(* the one it returns.  A dependency or result k > 0 is the k-th plan the  *)
(* resolver made, 0 the plan it was given, -k the plan of slot k.          *)
RECURSIVE planResolver(_, _, _, _, _, _)
planResolver(c, recipe, parentPlan, path, oldPlansLength, i) ==
  LET ref(k) == IF k > 0 THEN oldPlansLength + k ELSE IF k = 0 THEN parentPlan ELSE -k
  IN IF i > Len(recipe.plans) THEN Ret(c, ref(recipe.result))
     ELSE planResolver(
            _addPlan(c, [recipe.plans[i] EXCEPT
                           !.parentPathIdentity = path,
                           !.dependencies = [d \in DOMAIN @ |-> ref(@[d])]]),
            recipe, parentPlan, path, oldPlansLength, i + 1)

(* planFieldArguments: the modifier plans the argument resolvers made are *)
(* taken off the list and applied                                          *)
RECURSIVE planFieldArguments(_, _)
planFieldArguments(c, modifiers) ==
  IF modifiers = 0
  THEN [c EXCEPT !.modifierPlans = <<>>, !.modifierPlanCount = 0]
  ELSE planFieldArguments(_addModifierPlan(c, modifiers), modifiers - 1)

NewTreeNode(c, parent, pathIdentity, fieldPathIdentity, groupIds) ==
  [c EXCEPT !.treeNodes =
     Append([@ EXCEPT ![parent].children = Append(@, Len(c.treeNodes) + 1)],
            [parent |-> parent, pathIdentity |-> pathIdentity, children |-> <<>>,
             groupIds |-> groupIds, fieldPathIdentity |-> fieldPathIdentity])]

(* planFieldReturnType of field f: list is the list depth still to unwrap *)
RECURSIVE planFieldReturnType(_, _, _, _, _, _, _, _)
planFieldReturnType(c, f, fieldPathIdentity, pathIdentity, plan, treeNode, useValuePlan, list) ==
  LET field == c.operation.fields[f]
      oldPlansLength == c.planCount
      nestedParentPathIdentity == pathIdentity \o "[]"
  IN IF c.error # "" THEN Ret(c, plan)
     ELSE IF list
     THEN LET c1 == NewTreeNode(c, treeNode, nestedParentPathIdentity, fieldPathIdentity,
                                c.treeNodes[treeNode].groupIds)
              c2 == _addPlan(c1, NewPlan("__ItemPlan", nestedParentPathIdentity,
                                         <<plan>>, FALSE))
              c3 == Compile("finalizeArgumentsSince", c2,
                        << oldPlansLength + 1, c2.planCount, nestedParentPathIdentity,
                           FALSE >>)
              c4 == [c3 EXCEPT !.planIdByPathIdentity =
                                 Put(@, nestedParentPathIdentity, c2.planCount)]
          IN planFieldReturnType(c4, f, fieldPathIdentity, nestedParentPathIdentity,
                                 c2.planCount, Len(c1.treeNodes), useValuePlan, FALSE)
     ELSE IF useValuePlan
     THEN LET c1 == _addPlan(c, NewPlan("__ValuePlan", pathIdentity, <<>>, FALSE))
              c2 == Compile("finalizeArgumentsSince", c1,
                        << oldPlansLength + 1, c1.planCount, pathIdentity, FALSE >>)
              c3 == [c2 EXCEPT !.objects[c1.planCount].groupIds =
                                 @ \o c.treeNodes[treeNode].groupIds]
          IN planFieldReturnType(c3, f, fieldPathIdentity, pathIdentity, c1.planCount,
                                 treeNode, FALSE, FALSE)
     ELSE IF field.named = "object"
     THEN Ret(Compile("planSelectionSet", c, << f, pathIdentity, plan, treeNode, 1 >>), plan)
     ELSE IF field.named = "scalar"
     THEN LET c1 == _addPlan(c, NewPlan("scalar", pathIdentity, <<plan>>, FALSE))
          IN Ret(c1, c1.planCount)
     ELSE Ret(c, plan)

(* planSelectionSet, the body of its loop for field f *)
(* The policy without its demands on fields that return a planned type *)
fieldPolicyOfTypeOnly(field) ==
  IF field.typePlan /\ ~field.planned
  THEN "Every field within a planned type must have a plan"
  ELSE ""

(* What planSelectionSet demands of a field before it plans it: the error *)
(* it throws, or "" where it goes on                                      *)
fieldPolicy(field) ==
  IF field.typePlan /\ ~field.planned
  THEN "Every field within a planned type must have a plan"
  ELSE IF ~field.typePlan /\ field.resultIsPlanned /\ ~field.planned
  THEN "Field returns a type which expects a plan; this field has no plan"
  ELSE IF field.resultIsPlanned /\ field.resolver
  THEN "Field returns a type which expects a plan; it is forbidden from defining a GraphQL resolver"
  ELSE ""

(* planOptionsByPlan.set(plan, planOptions): the options are kept with    *)
(* the plan object they were recorded for                                  *)
planOptionsByPlanSet(c, plan, field) ==
  [c EXCEPT !.objects[plan].stream = field.streamDirective /\ c.objects[plan].streamable,
            !.objects[plan].initialCount =
               IF field.streamDirective /\ c.objects[plan].streamable
               THEN field.initialCount ELSE 0]

planField(c, f, path, parentPlan, parentTreeNode) ==
  LET field == c.operation.fields[f]
      pathIdentity == path \o ">" \o field.key
      c0 == [c EXCEPT !.groupIdsByPathIdentity = Put(@, pathIdentity, field.groupIds),
                      !.sideEffectPlanIdsByPathIdentity = Put(@, pathIdentity, <<>>)]
      oldPlansLength == c.planCount
      made == planResolver(c0, field.plan, parentPlan, path, oldPlansLength, 1)
      c1 == planOptionsByPlanSet(planFieldArguments(made.st, field.plan.modifiers),
                                 made.ret, field)
      c2 == Compile("finalizeArgumentsSince", c1,
                << oldPlansLength + 1, c1.planCount, pathIdentity, TRUE >>)
      c3 == Compile("deduplicatePlans", c2, << oldPlansLength, 0 >>)
      plan == IF field.planned THEN made.ret ELSE parentPlan
      c4 == NewTreeNode([(IF field.planned THEN c3
                          ELSE [c0 EXCEPT !.isUnplannedByPathIdentity =
                                            Put(@, pathIdentity, TRUE)]) EXCEPT
                           !.planIdByPathIdentity = Put(@, pathIdentity, plan)],
                        parentTreeNode, pathIdentity, pathIdentity, field.groupIds)
      r == Compile("planFieldReturnType", c4,
               << f, pathIdentity, pathIdentity, plan, Len(c4.treeNodes),
                  field.resolver /\ field.named = "object", field.list >>)
  IN IF c.error # "" THEN c
     ELSE IF fieldPolicy(field) # "" THEN Raise(c0, fieldPolicy(field))
     ELSE IF field.planned /\ c3.error # "" THEN c3
     ELSE IF r.st.error # "" THEN r.st
     ELSE [r.st EXCEPT !.itemPlanIdByFieldPathIdentity = Put(@, pathIdentity, r.ret)]

(* planSelectionSet for the selections under field `parent` (0: the       *)
(* operation's): its fields, from the i-th on                             *)
RECURSIVE planSelectionSet(_, _, _, _, _, _)
planSelectionSet(c, parent, path, parentPlan, parentTreeNode, i) ==
  IF c.error # "" \/ i > Len(c.operation.fields) THEN c
  ELSE planSelectionSet(
         IF c.operation.fields[i].parent = parent
         THEN Compile("planField", c, << i, path, parentPlan, parentTreeNode >>)
         ELSE c,
         parent, path, parentPlan, parentTreeNode, i + 1)

(* planQuery, planMutation and planSubscription *)
planOperation(c) ==
  LET root == c.trackedRootValuePlan
      subscribe == c.operation.subscribe
      made == planResolver(c, subscribe, root, "~", c.planCount, 1)
      c1 == planFieldArguments([made.st EXCEPT !.subscriptionPlanId = made.ret],
                               subscribe.modifiers)
      c2 == _addPlan(c1, NewPlan("__ItemPlan", "~", <<made.ret>>, FALSE))
      c3 == [c2 EXCEPT !.subscriptionItemPlanId = c2.planCount]
      start == IF c.operation.operationType # "subscription" THEN c
               ELSE IF c.operation.subscribed THEN c3
               ELSE [c EXCEPT !.subscriptionPlanId = root]
      parentPlan == IF c.operation.operationType = "subscription" /\ c.operation.subscribed
                    THEN c3.subscriptionItemPlanId
                    ELSE root
      c4 == Compile("finalizeArgumentsSince", start, << 1, start.planCount, "~", FALSE >>)
      topLevel == {f \in DOMAIN c.operation.fields : c.operation.fields[f].parent = 0}
  IN IF c.operation.operationType = "subscription" /\ Cardinality(topLevel) > 1
     THEN Raise(c, "subscriptions may only have one top-level field")
     ELSE Compile("planSelectionSet", c4, << 0, "~", parentPlan, 1, 1 >>)

(* new Aether(...): the fields as their initialisers leave them *)
NewAether(operation) ==
  [phase |-> "init", pc |-> "plan", error |-> "", consoleError |-> "",
   operation |-> operation, isDev |-> TRUE,
   plans |-> <<>>, objects |-> <<>>, planCount |-> 0,
   modifierPlans |-> <<>>, modifierPlanCount |-> 0,
   rootValuePlan |-> 0, trackedRootValuePlan |-> 0,
   planIdByPathIdentity |-> <<>>, itemPlanIdByFieldPathIdentity |-> <<>>,
   sideEffectPlanIdsByPathIdentity |-> <<>>,
   transformDependencyPlanIdByTransformPlanId |-> <<>>,
   groupIdsByPathIdentity |-> <<>>, isUnplannedByPathIdentity |-> <<>>,
   subscriptionPlanId |-> 0, subscriptionItemPlanId |-> 0,
   treeNodes |-> << [parent |-> 0, pathIdentity |-> "~", children |-> <<>>,
                     groupIds |-> <<0>>, fieldPathIdentity |-> "~"] >>,
   optimizedPlans |-> {}, replacements |-> 0,
   argumentsFinalized |-> <<>>, deduplicated |-> <<>>, optimized |-> <<>>,
   loops |-> 0, unoptimizedDependents |-> <<>>, firstPlanUsages |-> <<>>,
   commonAncestorAssigned |-> <<>>,
   finalized |-> <<>>, treeShakes |-> 0, plansBeforeShake |-> <<>>, external |-> <<>>]

(* The statements of the constructor from `this.phase = "plan"` on, one   *)
(* phase at a time; an error leaves the constructor where it was raised   *)
constructorPhase(c) ==
  CASE c.pc = "plan" ->
         LET RECURSIVE valuePlans(_, _)
             valuePlans(c0, n) ==
               IF n = 0 THEN c0
               ELSE LET v == _addPlan(valuePlans(c0, n - 1),
                                      NewPlan("__ValuePlan", "", <<>>, FALSE))
                    IN _addPlan(v, NewPlan("__TrackedObjectPlan", "", <<v.planCount>>,
                                           FALSE))
             c1 == valuePlans([c EXCEPT !.phase = "plan"], 3)
             c2 == [c1 EXCEPT !.rootValuePlan = 5, !.trackedRootValuePlan = 6,
                              !.planIdByPathIdentity = Put(@, "~", 5),
                              !.itemPlanIdByFieldPathIdentity = Put(@, "~", 5),
                              !.groupIdsByPathIdentity = Put(@, "~", <<0>>)]
             c3 == Compile("planOperation", c2, << >>)
         IN IF c3.error # ""
            THEN [Raise(c3, "Failed to plan this query.") EXCEPT !.consoleError = c3.error]
            ELSE [c3 EXCEPT !.pc = "validate"]
    [] c.pc = "validate" ->
         [Compile("treeShakePlans",
              Compile("validatePlans", [c EXCEPT !.phase = "validate"], << 0 >>), << >>)
            EXCEPT !.pc = "deduplicate"]
    [] c.pc = "deduplicate" ->
         [Compile("treeShakePlans",
              Compile("deduplicatePlans", [c EXCEPT !.phase = "deduplicate"], << 0, 0 >>),
              << >>)
            EXCEPT !.pc = "optimize"]
    [] c.pc = "optimize" ->
         [Compile("treeShakePlans",
              Compile("optimizePlans", [c EXCEPT !.phase = "optimize"], << >>), << >>)
            EXCEPT !.pc = "finalize"]
    [] c.pc = "finalize" ->
         [Compile("finalizePlans",
              Compile("assignCommonAncestorPathIdentity",
                      [c EXCEPT !.phase = "finalize"], << >>), << Len(c.plans) >>)
            EXCEPT !.pc = "ready"]
    [] c.pc = "ready" -> [c EXCEPT !.phase = "ready", !.pc = "done"]

(* Run one promise job *)
Resume(st, j) ==
  CASE j.tag = "adopt" -> Settle(st, j.i, j.ok, j.v)
    [] j.tag = "await" -> Run("awaitSettled", st, << j.f, j.i, j.ok, j.v >>)
    [] j.tag = "handlePending" -> Run("handlePendingPromise", st, << j.f, j.ok, j.v >>)
    [] j.tag = "handleInProgress" -> Run("handleInProgressPromise", st, << j.f, j.i, j.ok, j.v >>)
    [] j.tag = "dependency" -> Run("PendingDependencySettled", st, << j.f, j.i, j.ok, j.v >>)
    [] j.tag = "execute" -> Run("PendingExecuteSettled", st, << j.f, j.ok, j.v >>)
    [] j.tag = "item" -> Run("PendingItemSettled", st, << j.f, j.i, j.ok, j.v >>)
    [] j.tag \in {"local", "children"} -> Run("PrefetchSettled", st, << j.f, j.tag, j.i, j.ok, j.v >>)
    [] j.tag = "layer" ->
         IF j.ok THEN Run("SettleWith", st, << st.frames[j.f].promise,
                                 Run("finalizeLayerResults", st, << st.frames[j.f], j.v.p >>) >>)
         ELSE Settle(st, st.frames[j.f].promise, FALSE, j.v)
    [] j.tag = "chain" -> Run("chainCallback", st, << j.f, j.i, j.ok, j.v >>)
    [] j.tag = "executeBatch" -> Run("SettleEntries", st, << st.frames[j.f].defs, 1, j.ok, j.v >>)

(* The event loop runs the promise jobs until none is left *)
Drain(st) ==
  IF st.microtasks = <<>> THEN st
  ELSE Run("Drain", Run("Resume", [st EXCEPT !.microtasks = Tail(@)],
                        << Head(st.microtasks) >>), << >>)

(* The field f is resolved for the parent object o through a batch of its *)
(* own, as executeBatch does for a batch with the one entry o, but with   *)
(* no prefetch; the promise jobs it queues are run.  The value delivered  *)
(* for the entry is returned, Absent while it is pending.                 *)
OwnBatch(st, f, o) ==
  LET c == NewCache(st)
      r == Run("executeBatchForPlanResultses", c.st, <<
             [Frame0 EXCEPT !.kind = "batch", !.path = Field(f).pathIdentity,
                !.field = f, !.se = aether.sideEffectPlanIdsByPathIdentity[f],
                !.plan = Field(f).planId, !.itemPlan = Field(f).itemPlanId,
                !.prs = << PR(st.crystalObjects[o].planResults) >>,
                !.cache = c.id, !.allow = FALSE] >>)
      end == Run("Drain", r.st, << >>)
      settled == IF isPromiseLike(r.ret)
                 THEN IF end.promises[r.ret.p].state = "fulfilled"
                      THEN end.promises[r.ret.p].value
                      ELSE IF end.promises[r.ret.p].state = "rejected"
                      THEN Throw(end.promises[r.ret.p].value)
                      ELSE Absent
                 ELSE r.ret
  IN Ret(end, IF settled.k = "arr" THEN Get(end.arrays[settled.p], 1) ELSE settled)

(* A call of one of the functions of the executor *)
Run(op, st, args) ==
  CASE op = "ItemPlanValues" -> ItemPlanValues(st, args[1], args[2])
    [] op = "PendingErrors" -> PendingErrors(st, args[1], args[2], args[3], args[4])
    [] op = "PendingExecute" -> PendingExecute(st, args[1])
    [] op = "PendingItems" -> PendingItems(st, args[1], args[2])
    [] op = "PendingItemSettled" -> PendingItemSettled(st, args[1], args[2], args[3], args[4])
    [] op = "PendingDependency" -> PendingDependency(st, args[1], args[2])
    [] op = "PendingDependencySettled" -> PendingDependencySettled(st, args[1], args[2], args[3], args[4])
    [] op = "PendingExecuteSettled" -> PendingExecuteSettled(st, args[1], args[2], args[3])
    [] op = "executePlanPending" -> executePlanPending(st, args[1], args[2], args[3])
    [] op = "OldLoop" -> OldLoop(st, args[1], args[2])
    [] op = "OldComplete" -> OldComplete(st, args[1])
    [] op = "OldSettleDeferreds" -> OldSettleDeferreds(st, args[1], args[2], args[3], args[4])
    [] op = "handlePendingPromise" -> handlePendingPromise(st, args[1], args[2], args[3])
    [] op = "WriteInProgress" -> WriteInProgress(st, args[1], args[2])
    [] op = "handleInProgressPromise" -> handleInProgressPromise(st, args[1], args[2], args[3], args[4])
    [] op = "AwaitInProgress" -> AwaitInProgress(st, args[1], args[2])
    [] op = "executePlanOld" -> executePlanOld(st, args[1], args[2], args[3])
    [] op = "DoNextErrors" -> DoNextErrors(st, args[1], args[2], args[3])
    [] op = "WriteExecuted" -> WriteExecuted(st, args[1], args[2], args[3], args[4], args[5])
    [] op = "doNext" -> doNext(st, args[1])
    [] op = "ReEvaluate" -> ReEvaluate(st, args[1], args[2])
    [] op = "FillAll" -> FillAll(st, args[1], args[2], args[3])
    [] op = "awaitDependencyPromises" -> awaitDependencyPromises(st, args[1], args[2])
    [] op = "awaitSettled" -> awaitSettled(st, args[1], args[2], args[3], args[4])
    [] op = "AltDependencies" -> AltDependencies(st, args[1], args[2])
    [] op = "executePlanAlt" -> executePlanAlt(st, args[1], args[2], args[3])
    [] op = "executePlan" -> executePlan(st, args[1], args[2], args[3])
    [] op = "SettleWith" -> SettleWith(st, args[1], args[2])
    [] op = "AwaitAll" -> AwaitAll(st, args[1], args[2], args[3])
    [] op = "crystalObjectsFromPlanResults" -> crystalObjectsFromPlanResults(st, args[1], args[2], args[3], args[4])
    [] op = "storeResults" -> storeResults(st, args[1], args[2], args[3])
    [] op = "Prefetch" -> Prefetch(st, args[1], args[2], args[3], args[4])
    [] op = "PrefetchStage" -> PrefetchStage(st, args[1], args[2])
    [] op = "siblingsComplete" -> siblingsComplete(st, args[1])
    [] op = "processResults" -> processResults(st, args[1], args[2])
    [] op = "PrefetchSettled" -> PrefetchSettled(st, args[1], args[2], args[3], args[4], args[5])
    [] op = "finalizeLayerResults" -> finalizeLayerResults(st, args[1], args[2])
    [] op = "executeLayers" -> executeLayers(st, args[1])
    [] op = "executeBatchInner" -> executeBatchInner(st, args[1])
    [] op = "chainThen" -> chainThen(st, args[1], args[2], args[3])
    [] op = "executeBatchForPlanResultses" -> executeBatchForPlanResultses(st, args[1])
    [] op = "chainCallback" -> chainCallback(st, args[1], args[2], args[3], args[4])
    [] op = "SettleEntries" -> SettleEntries(st, args[1], args[2], args[3], args[4])
    [] op = "Resume" -> Resume(st, args[1])
    [] op = "Drain" -> Drain(st)
    [] op = "OwnBatch" -> OwnBatch(st, args[1], args[2])


(* A call of one of the methods of the compiler *)
Compile(op, st, args) ==
  CASE op = "finalizeArgumentsSince" ->
         finalizeArgumentsSince(st, args[1], args[2], args[3], args[4])
    [] op = "constructorPhase" -> constructorPhase(st)
    [] op = "recurse" -> recurse(st, args[1], args[2])
    [] op = "assignGroupIds" -> assignGroupIds(st)
    [] op = "assignCommonAncestorPathIdentity" -> assignCommonAncestorPathIdentity(st)
    [] op = "validatePlans" -> validatePlans(st, args[1])
    [] op = "treeShakePlans" -> treeShakePlans(st)
    [] op = "deduplicatePlan" -> deduplicatePlan(st, args[1])
    [] op = "optimizePlan" -> optimizePlan(st, args[1])
    [] op = "process" -> process(st, args[1], args[2], args[3], args[4])
    [] op = "processPlans" -> processPlans(st, args[1], args[2], args[3])
    [] op = "deduplicatePlans" -> deduplicatePlans(st, args[1], args[2])
    [] op = "optimizePlans" -> optimizePlans(st)
    [] op = "finalizePlans" -> finalizePlans(st, args[1])
    [] op = "planFieldReturnType" ->
         planFieldReturnType(st, args[1], args[2], args[3], args[4], args[5], args[6],
                             args[7])
    [] op = "planField" -> planField(st, args[1], args[2], args[3], args[4])
    [] op = "planSelectionSet" ->
         planSelectionSet(st, args[1], args[2], args[3], args[4], args[5])
    [] op = "planOperation" -> planOperation(st)
----------------------------------------------------------------------------
(* The operations under execution *)

ROOT_PATH == "~"
GLOBAL_PATH == ""
ITEMS_PATH == "~>items"
ITEM_PATH == "~>items[]"
A_PATH == "~>items[]>a"
M_PATH == "~>m"
C_PATH == "~>m>c"
E_PATH == "~>m>c>e"
Q_PATH == "~>q"

AllPaths == <<ROOT_PATH, ITEMS_PATH, ITEM_PATH, A_PATH, M_PATH, C_PATH, E_PATH, Q_PATH>>
Paths == Range(AllPaths)

Parents == 1..MaxParents

PlanRecord(kind, dependencies, path, sync, mode, bad, hasSideEffects) ==
  [kind |-> kind, dependencies |-> dependencies, commonAncestorPathIdentity |-> path,
   sync |-> sync, mode |-> mode, bad |-> bad, hasSideEffects |-> hasSideEffects,
   stream |-> FALSE, groupIds |-> {0}]

FieldDigest(pathIdentity, itemPathIdentity, planId, itemPlanId, parent, children) ==
  [pathIdentity |-> pathIdentity, itemPathIdentity |-> itemPathIdentity,
   planId |-> planId, itemPlanId |-> itemPlanId, parentFieldDigest |-> parent,
   childFieldDigests |-> children, isPolymorphic |-> FALSE]

(* walkFinalizedPlans: plan._recursiveDependencyIds *)
RECURSIVE recursiveDependencyIds(_, _)
recursiveDependencyIds(plans, p) ==
  UNION {{d} \cup recursiveDependencyIds(plans, d) : d \in Range(plans[p].dependencies)}

(* preparePrefetches.  Every field of the operations modelled is planned. *)
RECURSIVE prefetchLocal(_, _, _)
RECURSIVE executedPlanIds(_, _, _, _)
executedPlanIds(plans, fields, f, ancestor) ==
  IF ancestor = 0 THEN {fields[f].itemPlanId}
  ELSE recursiveDependencyIds(plans, fields[ancestor].itemPlanId)
       \cup (IF ancestor = f THEN {} ELSE Range(prefetchLocal(plans, fields, ancestor)))
       \cup executedPlanIds(plans, fields, f, fields[ancestor].parentFieldDigest)

prefetchLocal(plans, fields, f) ==
  IF fields[f].isPolymorphic THEN <<>>
  ELSE SelectSeq(Iota(Len(plans)), LAMBDA p :
         /\ plans[p].commonAncestorPathIdentity = fields[f].itemPathIdentity
         /\ p \notin executedPlanIds(plans, fields, f, f))

prefetchChildren(plans, fields, f) ==
  LET executed == executedPlanIds(plans, fields, f, f)
                    \cup Range(prefetchLocal(plans, fields, f))
      overlap(p, q) == plans[p].groupIds \cap plans[q].groupIds # {}
  IN IF fields[f].isPolymorphic THEN <<>>
     ELSE SelectSeq(fields[f].childFieldDigests, LAMBDA c :
            /\ overlap(fields[f].itemPlanId, fields[c].planId)
            /\ overlap(fields[f].itemPlanId, fields[c].itemPlanId)
            /\ \A id \in recursiveDependencyIds(plans, fields[c].itemPlanId) \ executed :
                 plans[id].sync /\ ~plans[id].hasSideEffects)

preparePrefetches(plans, fields) ==
  [f \in 1..Len(fields) |-> [local |-> prefetchLocal(plans, fields, f),
                             children |-> prefetchChildren(plans, fields, f)]]

(* The Aether in its ready phase *)
Aether(operationType, plans, fields, sideEffectPlanIds) ==
  [operationType |-> operationType, plans |-> plans, fields |-> fields,
   sideEffectPlanIdsByPathIdentity |-> sideEffectPlanIds,
   prefetchesForPathIdentity |-> preparePrefetches(plans, fields)]

(* How a plan's execute behaves: "ok" returns one value per row; "throw"  *)
(* throws; "reject" returns a promise that rejects; "items" returns, for  *)
(* the rows that stem from a parent in bad, a promise that rejects.       *)
Behaviour(sync, mode, bad) == [sync |-> sync, mode |-> mode, bad |-> bad]

SharedBehaviours ==
  {Behaviour(TRUE, "ok", {}), Behaviour(TRUE, "throw", {}),
   Behaviour(FALSE, "ok", {}), Behaviour(FALSE, "reject", {}),
   Behaviour(FALSE, "throw", {})}

ItemBehaviours ==
  {Behaviour(TRUE, "ok", {}), Behaviour(FALSE, "ok", {}),
   Behaviour(FALSE, "items", {1}), Behaviour(FALSE, "items", {MaxParents}),
   Behaviour(FALSE, "reject", {})}

ROOT_VALUE == 1   \* __ValuePlan holding the root value
ITEM == 2         \* __ItemPlan of the list
SHARED == 3       \* a plan of the root scope
FETCH == 4        \* a plan of the item scope
LEFT == 5         \* depends on FETCH
RIGHT == 6        \* depends on FETCH
JOIN == 7         \* depends on LEFT and RIGHT
PAIR == 8         \* depends on FETCH and SHARED

(* A root list field `items` is resolved for MaxParents list items: every *)
(* item has a PlanResults of its own whose bucket for the root path is    *)
(* shared with its siblings and whose other buckets are its own.  The     *)
(* plans of the item scope are used by several child fields of the item.  *)
PlanTable(s, f) ==
  << PlanRecord("value", <<>>, ROOT_PATH, TRUE, "ok", {}, FALSE),
     PlanRecord("item", <<ROOT_VALUE>>, ITEM_PATH, TRUE, "ok", {}, FALSE),
     PlanRecord("plan", <<ROOT_VALUE>>, ROOT_PATH, s.sync, s.mode, s.bad, FALSE),
     PlanRecord("plan", <<ITEM>>, ITEM_PATH, f.sync, f.mode, f.bad, FALSE),
     PlanRecord("plan", <<FETCH>>, ITEM_PATH, TRUE, "ok", {}, FALSE),
     PlanRecord("plan", <<FETCH>>, ITEM_PATH, TRUE, "ok", {}, FALSE),
     PlanRecord("plan", <<LEFT, RIGHT>>, ITEM_PATH, TRUE, "ok", {}, FALSE),
     PlanRecord("plan", <<FETCH, SHARED>>, ITEM_PATH, TRUE, "ok", {}, FALSE) >>

(* query { items { a } }: the plan of `a` (4) depends on an asynchronous  *)
(* plan (3) of the item, so that `a` is resolved by batches of its own.   *)
(* In the shared variant the plan of `a` is the asynchronous plan 3       *)
(* itself, which depends on the root value only and is used by another    *)
(* root field as well, so that its scope is the root path and the items   *)
(* share its bucket.                                                      *)
QueryPlans(d, shared) ==
  << PlanRecord("value", <<>>, ROOT_PATH, TRUE, "ok", {}, FALSE),
     PlanRecord("item", <<1>>, ITEM_PATH, TRUE, "ok", {}, FALSE),
     IF shared THEN PlanRecord("plan", <<1>>, ROOT_PATH, d.sync, d.mode, d.bad, FALSE)
     ELSE PlanRecord("plan", <<2>>, A_PATH, d.sync, d.mode, d.bad, FALSE),
     PlanRecord("plan", <<3>>, A_PATH, TRUE, "ok", {}, FALSE) >>

QueryFields(shared) ==
  << FieldDigest(ROOT_PATH, ROOT_PATH, 1, 1, 0, <<2>>),
     FieldDigest(ITEMS_PATH, ITEM_PATH, 1, 2, 1, <<3>>),
     IF shared THEN FieldDigest(A_PATH, A_PATH, 3, 3, 2, <<>>)
     ELSE FieldDigest(A_PATH, A_PATH, 4, 4, 2, <<>>) >>

DataBehaviours ==
  {Behaviour(FALSE, "ok", {}), Behaviour(FALSE, "items", {1}),
   Behaviour(FALSE, "reject", {})}

(* mutation { m { c { e } } q }: the field m declares the side-effect     *)
(* plans 2, 3, 4 and has the plan 5, which depends on 2; its child c      *)
(* declares the side-effect plan 6 and has the plan 7, which depends on   *)
(* 5; the plan 8 of the leaf e depends on 6, 3 and 4; q has the plan 9.   *)
(* Each plan's commonAncestorPathIdentity is the path where it is first   *)
(* used.                                                                  *)
MutationPlans(a, b, c) ==
  << PlanRecord("value", <<>>, ROOT_PATH, TRUE, "ok", {}, FALSE),
     PlanRecord("plan", <<>>, M_PATH, a.sync, a.mode, a.bad, TRUE),
     PlanRecord("plan", <<>>, E_PATH, b.sync, b.mode, b.bad, TRUE),
     PlanRecord("plan", <<>>, E_PATH, c.sync, c.mode, c.bad, TRUE),
     PlanRecord("plan", <<2>>, M_PATH, TRUE, "ok", {}, FALSE),
     PlanRecord("plan", <<>>, E_PATH, TRUE, "ok", {}, TRUE),
     PlanRecord("plan", <<5>>, C_PATH, TRUE, "ok", {}, FALSE),
     PlanRecord("plan", <<6, 3, 4>>, E_PATH, TRUE, "ok", {}, FALSE),
     PlanRecord("plan", <<>>, Q_PATH, FALSE, "ok", {}, FALSE) >>

MutationFields ==
  << FieldDigest(ROOT_PATH, ROOT_PATH, 1, 1, 0, <<2, 5>>),
     FieldDigest(M_PATH, M_PATH, 5, 5, 1, <<3>>),
     FieldDigest(C_PATH, C_PATH, 7, 7, 2, <<4>>),
     FieldDigest(E_PATH, E_PATH, 8, 8, 3, <<>>),
     FieldDigest(Q_PATH, Q_PATH, 9, 9, 1, <<>>) >>

MutationSideEffects == << <<>>, <<2, 3, 4>>, <<6>>, <<>>, <<>> >>

FirstBehaviours ==
  {Behaviour(TRUE, "ok", {}), Behaviour(FALSE, "ok", {}),
   Behaviour(TRUE, "throw", {}), Behaviour(FALSE, "reject", {})}

LaterBehaviours == {Behaviour(TRUE, "ok", {}), Behaviour(FALSE, "ok", {})}

(* The plan whose behaviour an operation varies, and the executePlan      *)
(* invocations a caller makes: the plans that reach it.                   *)
DefaultBehaviour == Behaviour(TRUE, "ok", {})

RECURSIVE Reaches(_, _)
Reaches(p, q) ==
  \/ p = q
  \/ \E d \in Range(aether.plans[p].dependencies) : Reaches(d, q)

VariedPlan ==
  IF Behaviour(Plan(SHARED).sync, Plan(SHARED).mode, Plan(SHARED).bad) # DefaultBehaviour
  THEN SHARED ELSE FETCH

CallablePlans == {p \in {SHARED, FETCH, LEFT, JOIN, PAIR} : Reaches(p, VariedPlan)}
Batches == {[i \in Parents |-> PR(i)], <<PR(MaxParents)>>}

(* The operations compiled.  A field: its key under its parent's path,    *)
(* the field it is selected under, the group ids of its selections, its   *)
(* plan resolver, whether it returns a list, its named type and whether   *)
(* it has a resolver of its own.                                          *)

Recipe(made, result, modifiers) ==
  [plans |-> made, result |-> result, modifiers |-> modifiers]

Class(kind, dependencies, hasSideEffects, dedup, opt, fin) ==
  [NewPlan(kind, "", dependencies, hasSideEffects) EXCEPT
     !.deduplicate = dedup, !.optimize = opt, !.finalize = fin]

FieldSpec(key, parent, groupIds, recipe, list, named, resolver) ==
  [key |-> key, parent |-> parent, groupIds |-> groupIds, planned |-> TRUE,
   plan |-> recipe, list |-> list, named |-> named, resolver |-> resolver,
   typePlan |-> FALSE, resultIsPlanned |-> FALSE,
   streamDirective |-> FALSE, initialCount |-> 0]

Unplanned(key, parent, groupIds, named) ==
  [FieldSpec(key, parent, groupIds, Recipe(<<>>, 0, 0), FALSE, named, FALSE)
     EXCEPT !.planned = FALSE]

(* What the deduplicate, optimize and finalize methods of the plans do: a *)
(* pair of deduplicate behaviours is that of two plans made alike, the    *)
(* earlier and the later one                                               *)
DeduplicateBehaviours ==
  {<<"self", "self">>, <<"self", "peer">>, <<"peer", "self">>, <<"peer", "peer">>,
   <<"self", "stranger">>, <<"stranger", "self">>}
OptimizeBehaviours == {"self", "dependency", "new", "constant"}
FinalizeBehaviours == {"ok", "newPlan"}

(* query { items { a b c } }: a and b are planned alike, c's type is a     *)
(* scalar with a plan of its own; the resolver of items leaves a plan     *)
(* behind that nothing uses                                                *)
ListQuery(dedup, opt, fin) ==
  [operationType |-> "query", subscribed |-> FALSE, subscribe |-> Recipe(<<>>, 0, 0),
   fields |-> <<
     FieldSpec("Query.items", 0, <<0>>,
               Recipe(<< Class("connection", <<0>>, FALSE, "self", opt, "ok"),
                         Class("unused", <<0>>, FALSE, "self", "self", "ok") >>, 1, 1),
               TRUE, "object", FALSE),
     FieldSpec("Item.a", 1, <<0>>,
               Recipe(<< Class("column", <<0>>, FALSE, dedup[1], "self", fin) >>, 1, 0),
               FALSE, "leaf", FALSE),
     FieldSpec("Item.b", 1, <<0>>,
               Recipe(<< Class("column", <<0>>, FALSE, dedup[2], "self", "ok") >>, 1, 0),
               FALSE, "leaf", FALSE),
     FieldSpec("Item.c", 1, <<0>>,
               Recipe(<< Class("column", <<0>>, FALSE, "self", opt, "ok") >>, 1, 0),
               FALSE, "scalar", FALSE) >>]

(* query { q { ... @defer { x z } y w } }: x and z are selected in group   *)
(* 1, w in both groups; x makes a plan that y uses too, the plan of z      *)
(* depends on no other plan, and w has no plan of its own                  *)
DeferQuery(dedup, opt, fin) ==
  [operationType |-> "query", subscribed |-> FALSE, subscribe |-> Recipe(<<>>, 0, 0),
   fields |-> <<
     FieldSpec("Query.q", 0, <<0>>,
               Recipe(<< Class("record", <<0>>, FALSE, "self", "self", fin) >>, 1, 0),
               FALSE, "object", FALSE),
     FieldSpec("Q.x", 1, <<1>>,
               Recipe(<< Class("lookup", <<-6>>, FALSE, "self", "self", "ok"),
                         Class("column", <<0, 1>>, FALSE, dedup[1], opt, "ok") >>, 2, 0),
               FALSE, "leaf", FALSE),
     FieldSpec("Q.y", 1, <<0>>,
               Recipe(<< Class("column", <<0, -8>>, FALSE, dedup[2], "self", "ok") >>, 1, 0),
               FALSE, "leaf", FALSE),
     FieldSpec("Q.z", 1, <<1>>,
               Recipe(<< Class("other", <<>>, FALSE, "self", opt, "ok") >>, 1, 0),
               FALSE, "leaf", FALSE),
     Unplanned("Q.w", 1, <<0, 1>>, "leaf") >>]

(* mutation { m { n } } or subscription { m { n } }: the resolver of m    *)
(* makes a plan with side effects, a plan of the same class without, and  *)
(* a list transform; n belongs to a type with a resolver of its own       *)
EffectOperation(operationType, dedup, opt, fin) ==
  [operationType |-> operationType, subscribed |-> TRUE,
   subscribe |-> Recipe(<< Class("subscribe", <<0>>, FALSE, "self", "self", "ok") >>, 1, 1),
   fields |-> <<
     FieldSpec("Root.m", 0, <<0>>,
               Recipe(<< Class("write", <<0>>, TRUE, dedup[1], opt, "ok"),
                         Class("write", <<0>>, FALSE, dedup[2], "self", "ok"),
                         [Class("__ListTransformPlan", <<1>>, FALSE, "self", "self", fin)
                            EXCEPT !.itemPlanCallback = "each"],
                         Class("payload", <<1, 3, 2>>, FALSE, dedup[1], "self", "ok"),
                         Class("payload", <<1, 3, 2>>, FALSE, dedup[2], "self", "ok") >>,
                      5, 0),
               FALSE, "object", FALSE),
     FieldSpec("M.n", 1, <<0>>,
               Recipe(<< Class("column", <<0>>, FALSE, "self", "self", "ok") >>, 1, 0),
               FALSE, "object", TRUE) >>]

(* Operations that break the contract of plans and fields: a field of a   *)
(* planned type without a plan, a field that returns a planned type        *)
(* without a plan, a resolver on a field whose result type is planned, a   *)
(* subscription with two top-level fields                                  *)
UserErrorOperations ==
  LET query == ListQuery(<<"self", "self">>, "self", "ok")
      effect(operationType) ==
        EffectOperation(operationType, <<"self", "self">>, "self", "ok")
  IN {[query EXCEPT !.fields[3].planned = FALSE, !.fields[3].typePlan = TRUE],
      [query EXCEPT !.fields[1].planned = FALSE, !.fields[1].resultIsPlanned = TRUE],
      [effect("mutation") EXCEPT !.fields[2].resultIsPlanned = TRUE],
      [effect("subscription") EXCEPT
         !.fields = Append(@, Unplanned("Root.o", 0, <<0>>, "leaf"))]}

(* Operations that make a plan with side effects outside the plan function *)
(* of a field: in the callback of a list transform, in the subscribe plan  *)
SideEffectOperations ==
  LET effect(operationType) ==
        [EffectOperation(operationType, <<"self", "self">>, "self", "ok")
           EXCEPT !.fields[2].resolver = FALSE]
  IN {[effect("mutation") EXCEPT !.fields[1].plan.plans[3].itemPlanCallback = "effect"],
      [effect("subscription") EXCEPT !.subscribe.plans[1].hasSideEffects = TRUE]}

(* query { q { x y } }: x and y make plans of one class, each on a plan of *)
(* a class of its own that depends on the root value; when both of these  *)
(* are optimized away in favour of their dependency, the plans of x and y *)
(* have the same dependencies                                              *)
JoinQuery(dedup, opt) ==
  [operationType |-> "query", subscribed |-> FALSE, subscribe |-> Recipe(<<>>, 0, 0),
   fields |-> <<
     FieldSpec("Query.q", 0, <<0>>,
               Recipe(<< Class("record", <<0>>, FALSE, "self", "self", "ok") >>, 1, 0),
               FALSE, "object", FALSE),
     FieldSpec("Q.x", 1, <<0>>,
               Recipe(<< Class("lookup", <<-6>>, FALSE, "self", opt, "ok"),
                         Class("column", <<0, 1>>, FALSE, dedup[1], "self", "ok") >>, 2, 0),
               FALSE, "leaf", FALSE),
     FieldSpec("Q.y", 1, <<0>>,
               Recipe(<< Class("fetch", <<-6>>, FALSE, "self", opt, "ok"),
                         Class("column", <<0, 1>>, FALSE, dedup[2], "self", "ok") >>, 2, 0),
               FALSE, "leaf", FALSE) >>]

(* query { q { x @stream(initialCount: 2) y } }: x and y are lists planned *)
(* alike with a streamable plan, y is selected first                       *)
StreamQuery(dedup, opt) ==
  [operationType |-> "query", subscribed |-> FALSE, subscribe |-> Recipe(<<>>, 0, 0),
   fields |-> <<
     FieldSpec("Query.q", 0, <<0>>,
               Recipe(<< Class("record", <<0>>, FALSE, "self", "self", "ok") >>, 1, 0),
               FALSE, "object", FALSE),
     FieldSpec("Q.y", 1, <<0>>,
               Recipe(<< [Class("rows", <<0>>, FALSE, dedup[1], opt, "ok")
                            EXCEPT !.streamable = TRUE] >>, 1, 0),
               TRUE, "leaf", FALSE),
     [FieldSpec("Q.x", 1, <<0>>,
                Recipe(<< [Class("rows", <<0>>, FALSE, dedup[2], opt, "ok")
                             EXCEPT !.streamable = TRUE] >>, 1, 0),
                TRUE, "leaf", FALSE)
        EXCEPT !.streamDirective = TRUE, !.initialCount = 2],
     FieldSpec("Q.z", 1, <<0>>,
               Recipe(<< [Class("rows", <<0>>, FALSE, dedup[1], "self", "ok")
                            EXCEPT !.streamable = TRUE] >>, 1, 0),
               TRUE, "leaf", FALSE) >>]

(* query { p }: one leaf field, for every combination of what its type,   *)
(* its result type and the field itself declare                            *)
PolicyQuery(typePlan, fieldHasPlan, resultIsPlanned, graphqlResolver) ==
  [operationType |-> "query", subscribed |-> FALSE, subscribe |-> Recipe(<<>>, 0, 0),
   fields |-> <<
     [FieldSpec("Query.p", 0, <<0>>,
                Recipe(<< Class("column", <<0>>, FALSE, "self", "self", "ok") >>, 1, 0),
                FALSE, "leaf", graphqlResolver)
        EXCEPT !.planned = fieldHasPlan, !.typePlan = typePlan,
               !.resultIsPlanned = resultIsPlanned] >>]

PolicyOperations ==
  {PolicyQuery(t, p, r, g) : t \in BOOLEAN, p \in BOOLEAN, r \in BOOLEAN, g \in BOOLEAN}

(* subscription { e }: the field has no subscribe plan, and its plan is   *)
(* made without the plan of the parent                                    *)
EventOperation(opt) ==
  [operationType |-> "subscription", subscribed |-> FALSE,
   subscribe |-> Recipe(<< Class("subscribe", <<0>>, FALSE, "self", "self", "ok") >>, 1, 1),
   fields |-> <<
     FieldSpec("Root.e", 0, <<0>>,
               Recipe(<< Class("other", <<>>, FALSE, "self", opt, "ok") >>, 1, 0),
               FALSE, "leaf", FALSE) >>]

(* The operations above; those with the field m also where n has no       *)
(* resolver of its own, and the subscription also without a subscribe plan *)
Operations ==
  UNION {{ListQuery(d, o, f), DeferQuery(d, o, f), EffectOperation("mutation", d, o, f),
          EffectOperation("subscription", d, o, f),
          [EffectOperation("mutation", d, o, f) EXCEPT !.fields[2].resolver = FALSE],
          [EffectOperation("subscription", d, o, f) EXCEPT !.fields[2].resolver = FALSE],
          [EffectOperation("subscription", d, o, f) EXCEPT !.fields[2].resolver = FALSE,
                                                           !.subscribed = FALSE],
          EventOperation(o), JoinQuery(d, o), StreamQuery(d, o)} :
           <<d, o, f>> \in DeduplicateBehaviours \X OptimizeBehaviours
                             \X FinalizeBehaviours}


(* --- the async iterator executeLayers returns for a stream ------------ *)
(* listResultIterator is the iterator of the plan's async iterable, with  *)
(* or without a return and a throw method; abort is a deferred.  A call   *)
(* of next() has its position (pc), the nextPromise of the source, which  *)
(* of abort and nextPromise settled the first race, and what it returned. *)
IteratorResult(done, value) == [done |-> done, value |-> value, thrown |-> FALSE]
Thrown(e) == [done |-> FALSE, value |-> e, thrown |-> TRUE]
Pending == [done |-> FALSE, value |-> -1, thrown |-> FALSE]

asyncIterator(hasReturn, hasThrow) ==
  [listResultIterator |-> [return |-> hasReturn, throw |-> hasThrow,
                           yielded |-> 0, closed |-> FALSE, calls |-> <<>>],
   abort |-> "pending",
   nexts |-> <<>>,
   terminations |-> <<>>]

(* abort.reject($$FINISHED): every race abort takes part in and that has  *)
(* not been settled is settled by abort                                   *)
abortIgnored(it) == it
abortReject(it) ==
  [it EXCEPT !.abort = "rejected",
             !.nexts = [i \in 1..Len(@) |->
                          IF @[i].pc = "race" /\ @[i].race = ""
                          THEN [@[i] EXCEPT !.race = "abort"] ELSE @[i]]]

(* newCrystalContext, and for a query the state in which the list field   *)
(* has delivered the crystal objects of its items                         *)
InitHeaps ==
  LET mutation == aether.operationType = "mutation"
      pathIndex(path) == CHOOSE i \in 1..Len(AllPaths) : AllPaths[i] = path
      nBuckets == IF mutation THEN Len(AllPaths) ELSE 1 + 2 * MaxParents
      noData == [f \in FieldIds |-> Absent]
  IN
  /\ planResults =
       IF mutation THEN << [path \in Paths |-> pathIndex(path)] >>
       ELSE [i \in Parents |->
               [path \in Paths |-> IF path = ROOT_PATH THEN 1
                                   ELSE IF path \in {ITEMS_PATH, ITEM_PATH} THEN 1 + i
                                   ELSE 1 + MaxParents + i]]
  /\ buckets = [b \in 1..nBuckets |->
                  [p \in PlanIds |->
                     IF b = 1 /\ p = ROOT_VALUE THEN Input(0)
                     ELSE IF ~mutation /\ b \in 2..(1 + MaxParents) /\ p = ITEM
                     THEN Input(b - 1)
                     ELSE Absent]]
  /\ crystalObjects =
       IF mutation
       THEN << [pathIdentity |-> GLOBAL_PATH, planResults |-> 1, data |-> noData] >>
       ELSE [i \in Parents |->
               [pathIdentity |-> ITEMS_PATH, planResults |-> i, data |-> noData]]
  /\ arrays = <<>>
  /\ promises = <<>>
  /\ frames = <<>>
  /\ microtasks = <<>>
  /\ caches = <<>>
  /\ inProgressPlanResolutions = [p \in PlanIds |-> [b \in 1..nBuckets |-> 0]]
  /\ executions = <<>>
  /\ pendingExecutes = <<>>
  /\ completions = <<>>
  /\ errorCount = 0
  /\ calls = <<>>
  /\ batches = <<>>
  /\ batchByPathIdentity = [path \in Paths |-> 0]
  /\ nextTicks = <<>>
  /\ lookups = <<>>
  /\ lookupsBeforeTick = 0

(* --- SchemaBuilder: watchSchema and unwatchSchema ---------------------- *)

NumWatchers == 2
MaxWatchCalls == 2
MaxListener == 1

(* new SchemaBuilder(options) followed by registerWatcher for each of the *)
(* watchers.  triggerChange is 0 (null) or the number of the watchSchema  *)
(* call that made the closure, ignoreChangeTriggers the variable each     *)
(* closure has captured, listeners the functions attached to the "schema" *)
(* event, watching what a watcher has been handed by listen and has not   *)
(* given back on unlisten; listener 0 is undefined.  pc and fn say where  *)
(* an asynchronous call is suspended, thrown is the error of the last     *)
(* call that ended, before the builder as watchSchema found it.           *)
SchemaBuilderInit ==
  builder = [_busy |-> FALSE, _watching |-> FALSE, triggerChange |-> 0,
             _explicitSchemaListener |-> 0, _generatedSchema |-> FALSE,
             _validationErrors |-> FALSE, listeners |-> <<>>,
             ignoreChangeTriggers |-> <<>>,
             watching |-> [fn \in 1..NumWatchers |-> {}],
             pc |-> "idle", fn |-> 0, thrown |-> "",
             before |-> [listeners |-> <<>>, triggerChange |-> 0,
                         _explicitSchemaListener |-> 0,
                         watching |-> [fn \in 1..NumWatchers |-> {}]]]

(* buildSchema: builds when there is no valid schema; a hook that throws  *)
(* leaves the fields alone, a schema that fails validation is kept with   *)
(* its errors and thrown about                                             *)
buildSchema(b, outcome) ==
  IF ~b._generatedSchema \/ b._validationErrors
  THEN CASE outcome = "ok" ->
              [b |-> [b EXCEPT !._generatedSchema = TRUE, !._validationErrors = FALSE],
               thrown |-> FALSE]
         [] outcome = "throws" -> [b |-> b, thrown |-> TRUE]
         [] outcome = "invalid" ->
              [b |-> [b EXCEPT !._generatedSchema = TRUE, !._validationErrors = TRUE],
               thrown |-> TRUE]
  ELSE [b |-> b, thrown |-> FALSE]

Init ==
  /\ \E s \in SharedBehaviours, f \in ItemBehaviours :
       /\ s = DefaultBehaviour \/ f = DefaultBehaviour
       /\ aether = Aether("query", PlanTable(s, f), <<>>, <<>>)
  /\ InitHeaps
  /\ compiler = NewAether(ListQuery(<<"self", "self">>, "self", "ok"))
  /\ iterator = asyncIterator(TRUE, TRUE)
  /\ SchemaBuilderInit

BatchInit ==
  /\ \/ \E a \in FirstBehaviours, b \in LaterBehaviours, c \in LaterBehaviours :
          aether = Aether("mutation", MutationPlans(a, b, c), MutationFields,
                          MutationSideEffects)
     \/ \E d \in DataBehaviours, shared \in BOOLEAN :
          aether = Aether("query", QueryPlans(d, shared), QueryFields(shared),
                          << <<>>, <<>>, <<>> >>)
  /\ InitHeaps
  /\ compiler = NewAether(ListQuery(<<"self", "self">>, "self", "ok"))
  /\ iterator = asyncIterator(TRUE, TRUE)
  /\ SchemaBuilderInit

(* Any step but a resolver's lookup ends the tick the lookups were made in *)
EndTick ==
  /\ lookupsBeforeTick' = Len(lookups)
  /\ UNCHANGED <<builder, iterator, compiler, batches, batchByPathIdentity, nextTicks, lookups>>

(* A caller (executeLayers, the side-effect chain) invokes executePlan    *)
(* with a plan cache of its own.                                          *)
Call(plan, prs) ==
  /\ Len(calls) < MaxCalls
  /\ LET c == NewCache(S)
         r == Run("executePlan", c.st, << plan, prs, c.id >>)
     IN /\ Commit(r.st)
        /\ calls' = Append(calls, [plan |-> plan, prs |-> prs, ret |-> r.ret])
  /\ EndTick

(* The event loop runs the next promise job, once the callbacks queued    *)
(* with process.nextTick have run                                         *)
RunMicrotask ==
  /\ nextTicks = <<>>
  /\ microtasks # <<>>
  /\ Commit(Run("Resume", [S EXCEPT !.microtasks = Tail(@)], << Head(microtasks) >>))
  /\ UNCHANGED calls
  /\ EndTick

(* The values an asynchronous execute delivers; a row that fails is a     *)
(* promise that is rejected.                                              *)
RECURSIVE AsyncResults(_, _, _, _, _)
AsyncResults(st, plan, rows, r, acc) ==
  IF r > Len(rows) THEN [st |-> st, results |-> acc]
  ELSE IF Plan(plan).mode = "items" /\ Origin(rows[r][1]) \in Plan(plan).bad
  THEN LET p == NewPromise(st)
       IN AsyncResults(Settle(p.st, p.id, FALSE, Exc(plan)), plan, rows, r + 1,
                       Append(acc, Prom(p.id)))
  ELSE AsyncResults(st, plan, rows, r + 1, Append(acc, MkVal(plan, rows[r])))

(* A promise returned by an asynchronous plan's execute settles; this is  *)
(* an event of its own, so no promise job is waiting.                     *)
SettleExecute(k) ==
  /\ nextTicks = <<>>
  /\ microtasks = <<>>
  /\ k \in 1..Len(pendingExecutes)
  /\ LET e == pendingExecutes[k]
         st0 == LogCompletion([S EXCEPT !.pendingExecutes = Splice(@, k)], e.plan)
     IN IF Plan(e.plan).mode = "reject"
        THEN Commit(Settle(st0, e.promise, FALSE, Exc(e.plan)))
        ELSE LET r == AsyncResults(st0, e.plan, e.rows, 1, <<>>)
                 a == NewArray(r.st, r.results)
             IN Commit(Settle(a.st, e.promise, TRUE, Arr(a.id)))
  /\ UNCHANGED calls
  /\ EndTick

Next ==
  \/ \E plan \in CallablePlans, prs \in Batches : Call(plan, prs)
  \/ RunMicrotask
  \/ \E k \in 1..Len(pendingExecutes) : SettleExecute(k)

Spec == Init /\ [][Next]_vars

----------------------------------------------------------------------------
(* The resolvers and the batches *)

(* The crystal objects GraphQL has been given: those of the start, the    *)
(* values of the settled lookups and the prefetched data of either.       *)
RECURSIVE Delivered(_)
Delivered(o) ==
  \/ o <= (IF aether.operationType = "mutation" THEN 1 ELSE MaxParents)
  \/ \E l \in 1..Len(lookups) :
       /\ promises[lookups[l].deferred].state = "fulfilled"
       /\ promises[lookups[l].deferred].value = Obj(o)
  \/ \E p \in 1..(o - 1) :
       /\ \E f \in FieldIds : crystalObjects[p].data[f] = Obj(o)
       /\ Delivered(p)

newBatch(fieldPathIdentity) ==
  [pathIdentity |-> fieldPathIdentity, entries |-> <<>>, drains |-> 0,
   entriesLength |-> 0, promisesCreated |-> 0, returned |-> Undefined]

(* makeBatch, and the entry its caller pushes *)
makeBatch(pathIdentity, entry) ==
  /\ batches' = Append(batches, [newBatch(pathIdentity) EXCEPT !.entries = <<entry>>])
  /\ batchByPathIdentity' = [batchByPathIdentity EXCEPT ![pathIdentity] = Len(batches) + 1]
  /\ nextTicks' = Append(nextTicks, Len(batches) + 1)

(* The resolver of field f is invoked for the parent object o, which has  *)
(* no prefetched data for f: it takes the batch registered for the path,  *)
(* or makes one, and pushes the object with a new deferred.               *)
Lookup(f, o) ==
  LET parent == Field(Field(f).parentFieldDigest).pathIdentity
      path == Field(f).pathIdentity
      d == NewPromise(S)
      entry == [crystalObject |-> o, deferred |-> d.id]
      b == IF batchByPathIdentity[path] = 0 THEN Len(batches) + 1
           ELSE batchByPathIdentity[path]
  IN /\ Field(f).parentFieldDigest # 0
     /\ crystalObjects[o].pathIdentity = (IF parent = ROOT_PATH THEN GLOBAL_PATH ELSE parent)
     /\ Delivered(o)
     /\ crystalObjects[o].data[f] = Absent
     /\ \A l \in 1..Len(lookups) : ~(lookups[l].field = f /\ lookups[l].crystalObject = o)
     /\ Commit(d.st)
     /\ IF batchByPathIdentity[path] = 0 THEN makeBatch(path, entry)
        ELSE /\ batches' = [batches EXCEPT ![b].entries = Append(@, entry)]
             /\ UNCHANGED <<batchByPathIdentity, nextTicks>>
     /\ lookups' = Append(lookups, [field |-> f, crystalObject |-> o, batch |-> b,
                                    deferred |-> d.id])
     /\ UNCHANGED <<builder, iterator, compiler, calls, lookupsBeforeTick>>

(* delete this.batchByPathIdentity[batch.pathIdentity] *)
KeepBatch(registry, pathIdentity) == registry
deleteBatch(registry, pathIdentity) == [registry EXCEPT ![pathIdentity] = 0]

(* process.nextTick runs executeBatch up to its await *)
executeBatch ==
  /\ nextTicks # <<>>
  /\ LET b == Head(nextTicks)
         batch == batches[b]
         f == CHOOSE f \in FieldIds : Field(f).pathIdentity = batch.pathIdentity
         entries == batch.entries
         c == NewCache(S)
         r == Run("executeBatchForPlanResultses", c.st, << [Frame0 EXCEPT !.kind = "batch", !.path = batch.pathIdentity, !.field = f,
                   !.se = aether.sideEffectPlanIdsByPathIdentity[f],
                   !.plan = Field(f).planId, !.itemPlan = Field(f).itemPlanId,
                   !.prs = [i \in 1..Len(entries) |->
                              PR(crystalObjects[entries[i].crystalObject].planResults)],
                   !.cache = c.id, !.allow = TRUE] >>)
         defs == [i \in 1..Len(entries) |-> entries[i].deferred]
         w == NewFrame(r.st, [Frame0 EXCEPT !.kind = "executeBatch", !.defs = defs])
     IN /\ Commit(IF r.ret.k = "throw"
                  THEN Run("SettleEntries", r.st, << defs, 1, FALSE, r.ret.a[1] >>)
                  ELSE Then(w.st, r.ret, Waiter(w.id, "executeBatch", 0)))
        /\ batchByPathIdentity' = deleteBatch(batchByPathIdentity, batch.pathIdentity)
        /\ batches' = [batches EXCEPT ![b].drains = @ + 1,
                                      ![b].entriesLength = Len(entries),
                                      ![b].promisesCreated =
                                        Len(r.st.promises) - Len(promises),
                                      ![b].returned = r.ret]
  /\ nextTicks' = Tail(nextTicks)
  /\ lookupsBeforeTick' = Len(lookups)
  /\ UNCHANGED <<builder, iterator, compiler, calls, lookups>>

BatchNext ==
  \/ \E f \in FieldIds, o \in 1..Len(crystalObjects) : Lookup(f, o)
  \/ executeBatch
  \/ RunMicrotask
  \/ \E k \in 1..Len(pendingExecutes) : SettleExecute(k)

BatchSpec == BatchInit /\ [][BatchNext]_vars

CompileInit ==
  /\ aether = Aether("query", PlanTable(DefaultBehaviour, DefaultBehaviour), <<>>, <<>>)
  /\ InitHeaps
  /\ \E operation \in Operations \cup UserErrorOperations \cup PolicyOperations
                        \cup SideEffectOperations :
       \E isDev \in BOOLEAN :
         compiler = [NewAether(operation) EXCEPT !.isDev = isDev]
  /\ iterator = asyncIterator(TRUE, TRUE)
  /\ SchemaBuilderInit

executorVars == <<aether, planResults, buckets, arrays, promises, frames, microtasks,
                  caches, inProgressPlanResolutions, executions, pendingExecutes,
                  completions, errorCount, crystalObjects, calls, batches,
                  batchByPathIdentity, nextTicks, lookups, lookupsBeforeTick>>

(* new Aether(...): the constructor runs its next phase *)
constructorPastErrors ==
  /\ compiler.pc # "done"
  /\ compiler' = Compile("constructorPhase", compiler, << >>)
  /\ UNCHANGED <<executorVars, iterator, builder>>

constructor ==
  /\ compiler.error = ""
  /\ compiler.pc # "done"
  /\ LET thrown(c) == IF c.error # "" THEN [c EXCEPT !.pc = compiler.pc] ELSE c
     IN compiler' = thrown(Compile("constructorPhase", compiler, << >>))
  /\ UNCHANGED <<executorVars, iterator, builder>>

(* Code outside the constructor constructs a plan or a modifier plan; the *)
(* error, if any, is the caller's                                          *)
externalPlan(method) ==
  /\ compiler.phase \in {"init", "ready"}
  /\ Len(compiler.external) < MaxExternalCalls
  /\ LET c == IF method = "_addPlan"
              THEN _addPlan(compiler, NewPlan("external", "", <<>>, FALSE))
              ELSE _addModifierPlan(compiler, 0)
     IN compiler' = [c EXCEPT !.error = compiler.error,
                              !.external = Append(@, [method |-> method,
                                                      phase |-> compiler.phase,
                                                      raised |-> c.error # ""])]
  /\ UNCHANGED <<executorVars, iterator, builder>>

CompileNext ==
  \/ constructor
  \/ \E method \in {"_addPlan", "_addModifierPlan"} : externalPlan(method)

CompileSpec == CompileInit /\ [][CompileNext]_vars

----------------------------------------------------------------------------
(* A list field whose plan result is an async iterable *)

StreamInit ==
  /\ aether = Aether("query", PlanTable(DefaultBehaviour, DefaultBehaviour), <<>>, <<>>)
  /\ InitHeaps
  /\ compiler = NewAether(ListQuery(<<"self", "self">>, "self", "ok"))
  /\ \E hasReturn \in BOOLEAN, hasThrow \in BOOLEAN :
       iterator = asyncIterator(hasReturn, hasThrow)
  /\ SchemaBuilderInit

(* Where the call of next() was when early termination was first          *)
(* signalled                                                              *)
AtTermination(call) ==
  IF call.atTermination # "" THEN call.atTermination
  ELSE IF call.pc = "race" /\ call.race = "" THEN "waiting"
  ELSE IF call.pc = "race" THEN "arrived"
  ELSE call.pc

(* asyncIterator.next() up to its first await: listResultIterator.next()  *)
(* and Promise.race([abort, nextPromise]); a rejected abort is the first  *)
(* to settle the race                                                     *)
next ==
  /\ Len(iterator.nexts) < MaxNexts
  /\ iterator' =
       [iterator EXCEPT
          !.listResultIterator.calls = Append(@, "next"),
          !.nexts = Append(@, [pc |-> "race", nextPromise |-> Pending,
                               race |-> IF iterator.abort = "rejected"
                                        THEN "abort" ELSE "",
                               returned |-> Pending,
                               atTermination |-> IF iterator.terminations # <<>>
                                                 THEN "later" ELSE ""])]
  /\ UNCHANGED <<executorVars, compiler, builder>>

(* The source settles the oldest nextPromise that is pending: with the    *)
(* next element, with the end of the stream, or with an error; a source   *)
(* that was closed by return or throw has no more elements                *)
settleNextPromise(result) ==
  LET pending == {i \in 1..Len(iterator.nexts) : iterator.nexts[i].nextPromise = Pending}
      i == CHOOSE i \in pending : \A j \in pending : i <= j
      source == iterator.listResultIterator
  IN /\ pending # {}
     /\ result.done \/ result.thrown \/
          (~source.closed /\ result.value = source.yielded + 1)
     /\ iterator' =
          [iterator EXCEPT
             !.listResultIterator.yielded =
                IF result.done \/ result.thrown THEN @ ELSE @ + 1,
             !.nexts[i].nextPromise = result,
             !.nexts[i].race = IF @ = "" THEN "nextPromise" ELSE @]
     /\ UNCHANGED <<executorVars, compiler, builder>>

(* next() after its first await: $$FINISHED is caught, an error of the    *)
(* source is thrown; otherwise Promise.race([abort, resultPromise]),      *)
(* which a rejected abort settles first, then the check for null and the  *)
(* call of processResults                                                 *)
raceSettled(i) ==
  LET call == iterator.nexts[i]
      finished == IteratorResult(TRUE, 0)
  IN /\ call.pc = "race"
     /\ call.race # ""
     /\ iterator' =
          [iterator EXCEPT !.nexts[i] =
             IF call.race = "abort"
             THEN [call EXCEPT !.pc = "returned", !.returned = finished]
             ELSE IF call.nextPromise.thrown
             THEN [call EXCEPT !.pc = "returned", !.returned = call.nextPromise]
             ELSE IF iterator.abort = "rejected"
             THEN [call EXCEPT !.pc = "returned", !.returned = finished]
             ELSE IF call.nextPromise.value = 0
             THEN [call EXCEPT !.pc = "returned",
                               !.returned = IteratorResult(call.nextPromise.done, 0)]
             ELSE [call EXCEPT !.pc = "processResults"]]
     /\ UNCHANGED <<executorVars, compiler, builder>>

(* next() after processResults: return { done, value } *)
processResultsSettled(i) ==
  /\ iterator.nexts[i].pc = "processResults"
  /\ iterator' = [iterator EXCEPT !.nexts[i].pc = "returned",
                                  !.nexts[i].returned = iterator.nexts[i].nextPromise]
  /\ UNCHANGED <<executorVars, compiler, builder>>

(* asyncIterator.return(value) and asyncIterator.throw(e): abort is       *)
(* rejected and the method of the source, if it has one, is called        *)
terminate(method) ==
  LET it == abortReject(iterator)
      has == it.listResultIterator[method]
  IN /\ Len(iterator.terminations) < MaxTerminations
     /\ iterator' =
          [it EXCEPT
             !.terminations = Append(@, method),
             !.listResultIterator.calls = IF has THEN Append(@, method) ELSE @,
             !.listResultIterator.closed = @ \/ has,
             !.nexts = [i \in 1..Len(@) |->
                          [@[i] EXCEPT !.atTermination = AtTermination(iterator.nexts[i])]]]
     /\ UNCHANGED <<executorVars, compiler, builder>>

StreamNext ==
  \/ next
  \/ \E result \in {IteratorResult(FALSE, v) : v \in 1..MaxElements}
                    \cup {IteratorResult(TRUE, 0), Thrown(0)} :
       settleNextPromise(result)
  \/ \E i \in 1..Len(iterator.nexts) : raceSettled(i)
  \/ \E i \in 1..Len(iterator.nexts) : processResultsSettled(i)
  \/ \E method \in {"return", "throw"} : terminate(method)

StreamSpec == StreamInit /\ [][StreamNext]_vars

(* watchSchema(listener): the call, and its continuation after each await *)
watchSchema(listener, outcome, built) ==
  /\ UNCHANGED <<executorVars, compiler, iterator>>
  /\ \/ /\ builder._busy
        /\ builder' = [builder EXCEPT !.thrown = "An operation is in progress"]
     \/ /\ ~builder._busy /\ builder._watching
        /\ builder' = [builder EXCEPT !.thrown = "We're already watching this schema!"]
     \/ /\ ~builder._busy /\ ~builder._watching
        /\ Len(builder.ignoreChangeTriggers) < MaxWatchCalls
        /\ builder' = [builder EXCEPT
                         !._busy = TRUE, !._explicitSchemaListener = listener,
                         !.ignoreChangeTriggers = Append(@, TRUE),
                         !.triggerChange = Len(builder.ignoreChangeTriggers) + 1,
                         !.pc = "watchSchema", !.fn = 1, !.thrown = "",
                         !.before = [listeners |-> builder.listeners,
                                     triggerChange |-> builder.triggerChange,
                                     _explicitSchemaListener |->
                                       builder._explicitSchemaListener,
                                     watching |-> builder.watching]]
     \/ /\ builder.pc = "watchSchema" /\ builder.fn <= NumWatchers
        /\ builder' = IF outcome = "ok"
                      THEN [builder EXCEPT !.watching[builder.fn] =
                                              @ \cup {builder.triggerChange},
                                           !.fn = @ + 1]
                      ELSE [builder EXCEPT !._busy = FALSE, !.pc = "idle",
                                           !.thrown = "watcher threw"]
     \/ /\ builder.pc = "watchSchema" /\ builder.fn > NumWatchers
        /\ LET b1 == [builder EXCEPT
                        !.ignoreChangeTriggers[builder.triggerChange] = FALSE,
                        !.listeners = IF builder._explicitSchemaListener # 0
                                      THEN Append(@, builder._explicitSchemaListener)
                                      ELSE @]
               r == buildSchema(b1, built)
           IN builder' = [r.b EXCEPT !._watching = ~r.thrown, !._busy = FALSE,
                                     !.pc = "idle",
                                     !.thrown = IF r.thrown
                                                THEN "Schema generation failed" ELSE ""]

(* removeListener("schema", listener): the instance added last is removed *)
(* unwatchSchema(): the call, and its continuation after each await       *)
unwatchSchema(outcome) ==
  /\ UNCHANGED <<executorVars, compiler, iterator>>
  /\ \/ /\ builder._busy
        /\ builder' = [builder EXCEPT !.thrown = "An operation is in progress"]
     \/ /\ ~builder._busy /\ ~builder._watching
        /\ builder' = [builder EXCEPT !.thrown = "We're not watching this schema!"]
     \/ /\ ~builder._busy /\ builder._watching
        /\ LET listener == builder._explicitSchemaListener
               at == {i \in DOMAIN builder.listeners : builder.listeners[i] = listener}
               last == CHOOSE i \in at : \A j \in at : j <= i
           IN builder' = [builder EXCEPT
                            !._busy = TRUE, !._explicitSchemaListener = 0,
                            !.listeners = IF listener # 0 /\ at # {}
                                          THEN SubSeq(@, 1, last - 1)
                                                 \o SubSeq(@, last + 1, Len(@))
                                          ELSE @,
                            !.pc = "unwatchSchema", !.fn = 1, !.thrown = ""]
     \/ /\ builder.pc = "unwatchSchema"
        /\ builder.fn <= NumWatchers /\ builder.triggerChange # 0
        /\ builder' = IF outcome = "ok"
                      THEN [builder EXCEPT !.watching[builder.fn] =
                                              @ \ {builder.triggerChange},
                                           !.fn = @ + 1]
                      ELSE [builder EXCEPT !._busy = FALSE, !.pc = "idle",
                                           !.thrown = "unwatcher threw"]
     \/ /\ builder.pc = "unwatchSchema"
        /\ builder.fn > NumWatchers \/ builder.triggerChange = 0
        /\ builder' = [builder EXCEPT !.triggerChange = 0, !._watching = FALSE,
                                      !._busy = FALSE, !.pc = "idle"]

(* A watcher calls a change trigger it holds: the closure watchSchema made *)
triggerChange(fn, trigger, built) ==
  /\ trigger \in builder.watching[fn]
  /\ builder' = IF builder.ignoreChangeTriggers[trigger] THEN builder
                ELSE buildSchema([builder EXCEPT !._generatedSchema = FALSE], built).b
  /\ UNCHANGED <<executorVars, compiler, iterator>>

WatchInit ==
  /\ aether = Aether("query", PlanTable(DefaultBehaviour, DefaultBehaviour), <<>>, <<>>)
  /\ InitHeaps
  /\ compiler = NewAether(ListQuery(<<"self", "self">>, "self", "ok"))
  /\ iterator = asyncIterator(TRUE, TRUE)
  /\ SchemaBuilderInit

WatchNext ==
  \/ \E listener \in 0..MaxListener, outcome \in {"ok", "throws"},
        built \in {"ok", "throws", "invalid"} : watchSchema(listener, outcome, built)
  \/ \E outcome \in {"ok", "throws"} : unwatchSchema(outcome)
  \/ \E fn \in 1..NumWatchers, trigger \in 1..MaxWatchCalls,
        built \in {"ok", "throws", "invalid"} : triggerChange(fn, trigger, built)

WatchSpec == WatchInit /\ [][WatchNext]_vars


----------------------------------------------------------------------------
(* What a caller observes of its call *)

Settled(c) ==
  \/ c.ret.k = "arr"
  \/ c.ret.k = "throw"
  \/ c.ret.k = "prom" /\ promises[c.ret.p].state # "pending"

Failed(c) ==
  \/ c.ret.k = "throw"
  \/ c.ret.k = "prom" /\ promises[c.ret.p].state = "rejected"

Results(c) ==
  IF c.ret.k = "arr" THEN arrays[c.ret.p] ELSE arrays[promises[c.ret.p].value.p]

----------------------------------------------------------------------------
(* The value a plan is to have for a parent: the first error among its    *)
(* dependencies' values, else its own failure, else the value its execute *)
(* computes from the parent's dependency values.                          *)

ExpectedError(plan) == [k |-> "expectedError", p |-> plan, a |-> <<>>]

RECURSIVE Expected(_, _)
RECURSIVE ExpectedDependencyError(_, _, _)
ExpectedDependencyError(plan, parent, d) ==
  IF d > Len(Plan(plan).dependencies) THEN Absent
  ELSE LET e == Expected(Plan(plan).dependencies[d], parent)
       IN IF e.k = "expectedError" THEN e
          ELSE ExpectedDependencyError(plan, parent, d + 1)

Expected(plan, parent) ==
  LET P == Plan(plan)
  IN IF P.kind = "value" THEN Input(0)
     ELSE IF P.kind = "item" THEN Input(parent)
     ELSE LET e == ExpectedDependencyError(plan, parent, 1)
              row == [d \in 1..Len(P.dependencies) |-> Expected(P.dependencies[d], parent)]
          IN IF e # Absent THEN e
             ELSE IF P.mode \in {"throw", "reject"} THEN ExpectedError(plan)
             ELSE IF P.mode = "items" /\ Origin(row[1]) \in P.bad THEN ExpectedError(plan)
             ELSE MkVal(plan, row)

BucketOfCall(c, i) == planResults[c.prs[i].p][Plan(c.plan).commonAncestorPathIdentity]

ExecutionsFor(plan, bucket) ==
  {k \in 1..Len(executions) :
     /\ executions[k].plan = plan
     /\ \E m \in 1..Len(executions[k].for) :
          planResults[executions[k].for[m]][Plan(plan).commonAncestorPathIdentity] = bucket}

(* C1: a batch of N parents that share the plan's bucket, which holds no   *)
(* value for the plan: execute is invoked exactly once, and every result  *)
(* position receives the one value that is written to the bucket.         *)
C1_SharedBucketExecutesOnce ==
  (/\ Len(calls) = 1
   /\ Len(calls[1].prs) >= 2
   /\ \A i \in 1..Len(calls[1].prs) : BucketOfCall(calls[1], i) = BucketOfCall(calls[1], 1)
   /\ Settled(calls[1]))
  => /\ ~Failed(calls[1])
     /\ Cardinality(ExecutionsFor(calls[1].plan, BucketOfCall(calls[1], 1))) = 1
     /\ \A i \in 1..Len(calls[1].prs) :
          /\ Len(Results(calls[1])) = Len(calls[1].prs)
          /\ Results(calls[1])[i] = buckets[BucketOfCall(calls[1], 1)][calls[1].plan]

(* C2: two requests that map to the same (plan, bucket) observe the same  *)
(* result, whatever their interleaving and also when execute fails, and   *)
(* the plan's execute runs at most once for that bucket.                  *)
C2_SameResultAtMostOnce ==
  /\ \A p \in PlanIds, b \in 1..Len(buckets) : Cardinality(ExecutionsFor(p, b)) <= 1
  /\ \A i, j \in 1..Len(calls) :
       (i < j /\ calls[i].plan = calls[j].plan /\ Settled(calls[i]) /\ Settled(calls[j]))
       => /\ ~Failed(calls[i]) /\ ~Failed(calls[j])
          /\ \A m \in 1..Len(calls[i].prs), n \in 1..Len(calls[j].prs) :
               BucketOfCall(calls[i], m) = BucketOfCall(calls[j], n)
               => Get(Results(calls[i]), m) = Get(Results(calls[j]), n)

(* C3: when a dependency yields an error for some parents only, exactly   *)
(* those parents get an error from the dependent plan, and every other    *)
(* parent gets the value computed from its own dependency values.         *)
PartialDependencyError(c) ==
  /\ Plan(c.plan).mode = "ok"
  /\ \E i \in 1..Len(c.prs) : Expected(c.plan, c.prs[i].p).k = "expectedError"
  /\ \E i \in 1..Len(c.prs) : Expected(c.plan, c.prs[i].p).k # "expectedError"

C3_ErrorIsolation ==
  \A k \in 1..Len(calls) :
    (PartialDependencyError(calls[k]) /\ Settled(calls[k]) /\ ~Failed(calls[k]))
    => \A i \in 1..Len(calls[k].prs) :
         LET e == Expected(calls[k].plan, calls[k].prs[i].p)
             r == Get(Results(calls[k]), i)
         IN IF e.k = "expectedError" THEN IsCrystalError(r) ELSE r = e

(* C4: a failure of execute never makes executePlan throw or reject, for  *)
(* any caller; it shows as a CrystalError element of the result array.    *)
C4_FailureIsAValue ==
  \A k \in 1..Len(calls) :
    /\ ~Failed(calls[k])
    /\ (Settled(calls[k]) /\ Plan(calls[k].plan).mode \in {"throw", "reject"})
       => \A i \in 1..Len(calls[k].prs) : IsCrystalError(Get(Results(calls[k]), i))

(* C5: execute is never invoked for a parent that has a CrystalError as   *)
(* the value of a dependency; the rows handed to execute hold no          *)
(* CrystalError; such a parent's value for the plan is that CrystalError. *)
BucketValue(plan, pr) ==
  buckets[planResults[pr][Plan(plan).commonAncestorPathIdentity]][plan]

ErrorDependencies(plan, pr) ==
  {d \in 1..Len(Plan(plan).dependencies) :
     IsCrystalError(BucketValue(Plan(plan).dependencies[d], pr))}

C5_NoExecuteOnError ==
  /\ \A k \in 1..Len(executions) :
       /\ \A m \in 1..Len(executions[k].for) :
            ErrorDependencies(executions[k].plan, executions[k].for[m]) = {}
       /\ \A r \in 1..Len(executions[k].rows) :
            \A d \in 1..Len(executions[k].rows[r]) :
              ~IsCrystalError(executions[k].rows[r][d])
  /\ \A plan \in PlanIds, pr \in 1..Len(planResults) :
       (BucketValue(plan, pr) # Absent /\ ErrorDependencies(plan, pr) # {})
       => \E d \in ErrorDependencies(plan, pr) :
            BucketValue(plan, pr) = BucketValue(Plan(plan).dependencies[d], pr)

----------------------------------------------------------------------------
(* What is observed of the batches *)

SideEffects(f) == aether.sideEffectPlanIdsByPathIdentity[f]

Started(plan) == {k \in 1..Len(executions) : executions[k].plan = plan}

(* The plan completed before the execution with index k began *)
CompletedBefore(plan, k) ==
  \E c \in 1..Len(completions) : completions[c].plan = plan /\ completions[c].after < k

(* The field f has a value for the parent object o: the resolver's lookup *)
(* was fulfilled, or the value was stored on o by prefetch.               *)
Resolved(f, o) ==
  \/ crystalObjects[o].data[f] # Absent
  \/ \E l \in 1..Len(lookups) :
       /\ lookups[l].field = f /\ lookups[l].crystalObject = o
       /\ promises[lookups[l].deferred].state = "fulfilled"

Fails(plan) == Plan(plan).mode \in {"throw", "reject"}

(* C6: the side-effect plans declared at one field execute one after the  *)
(* other in declaration order: a plan's execute begins only after the     *)
(* execute of the plan declared before it has completed, and their        *)
(* completions come in declaration order, whatever the plans' latencies.  *)
C6_SideEffectsInOrder ==
  \A f \in FieldIds : \A i \in 2..Len(SideEffects(f)) :
    LET previous == SideEffects(f)[i - 1]
        this == SideEffects(f)[i]
    IN /\ \A k \in Started(this) : CompletedBefore(previous, k)
       /\ \A c \in 1..Len(completions) :
            completions[c].plan = this =>
              \E b \in 1..(c - 1) : completions[b].plan = previous

C6_Witness ==
  \E f \in FieldIds :
    /\ Len(SideEffects(f)) >= 3
    /\ \A i \in 1..Len(SideEffects(f)) :
         /\ ~Plan(SideEffects(f)[i]).sync
         /\ \E c \in 1..Len(completions) : completions[c].plan = SideEffects(f)[i]

(* C7: whenever a field has been resolved for a parent object, by a batch *)
(* of its own or by prefetch, every side-effect plan registered at that   *)
(* field has been executed.                                               *)
C7_SideEffectsAlwaysExecuted ==
  \A f \in FieldIds : \A o \in 1..Len(crystalObjects) :
    Resolved(f, o) => \A p \in Range(SideEffects(f)) : Started(p) # {}

(* C8: the plan of a field does not begin to execute before every         *)
(* side-effect plan of that field has completed.                          *)
C8_FieldPlanAfterSideEffects ==
  \A f \in FieldIds : \A k \in Started(Field(f).planId) :
    \A p \in Range(SideEffects(f)) : CompletedBefore(p, k)

(* C9: when a side-effect plan of a field fails, the side-effect plans    *)
(* declared after it at that field and the plans that depend on it are    *)
(* not executed, and no lookup of another root field is rejected.         *)
C9_SideEffectFailureAbortsChain ==
  \A f \in FieldIds : \A i \in 1..Len(SideEffects(f)) :
    (Fails(SideEffects(f)[i]) /\ Started(SideEffects(f)[i]) # {}) =>
      /\ \A j \in (i + 1)..Len(SideEffects(f)) : Started(SideEffects(f)[j]) = {}
      /\ \A p \in PlanIds :
           SideEffects(f)[i] \in Range(Plan(p).dependencies) => Started(p) = {}
      /\ \A l \in 1..Len(lookups) :
           (lookups[l].field # f
              /\ Field(lookups[l].field).parentFieldDigest = Field(f).parentFieldDigest)
             => promises[lookups[l].deferred].state # "rejected"

(* C10: the lookups made for one path identity within one tick are the    *)
(* entries of one batch, which is the one registered for the path; a      *)
(* batch is drained once, is no longer registered once it is drained, and *)
(* gets no entry after that: a later lookup goes to a new batch.          *)
C10_OneBatchPerPathAndTick ==
  /\ \A l \in 1..Len(lookups) :
       /\ \E e \in 1..Len(batches[lookups[l].batch].entries) :
            batches[lookups[l].batch].entries[e] =
              [crystalObject |-> lookups[l].crystalObject, deferred |-> lookups[l].deferred]
       /\ batches[lookups[l].batch].pathIdentity = Field(lookups[l].field).pathIdentity
       /\ \A m \in 1..Len(lookups) :
            (l > lookupsBeforeTick /\ m > lookupsBeforeTick
               /\ Field(lookups[l].field).pathIdentity = Field(lookups[m].field).pathIdentity)
              => lookups[l].batch = lookups[m].batch
  /\ \A b \in 1..Len(batches) :
       /\ batches[b].drains <= 1
       /\ batches[b].drains = 1 =>
            /\ batchByPathIdentity[batches[b].pathIdentity] # b
            /\ Len(batches[b].entries) = batches[b].entriesLength
            /\ b \notin Range(nextTicks)
       /\ batches[b].drains = 0 =>
            /\ batchByPathIdentity[batches[b].pathIdentity] = b
            /\ Len(SelectSeq(nextTicks, LAMBDA t : t = b)) = 1

C10_Witness ==
  \E b \in 1..Len(batches), c \in 1..Len(batches) :
    /\ b < c
    /\ batches[b].pathIdentity = batches[c].pathIdentity
    /\ batches[b].drains = 1
    /\ batches[c].drains = 1
    /\ \A e \in 1..Len(batches[b].entries) :
         promises[batches[b].entries[e].deferred].state # "pending"

(* C11: once a batch has drained and every plan execution and promise job *)
(* it caused has run, no entry's deferred is pending: an entry whose      *)
(* parent has a value for the field's plan is fulfilled with the crystal  *)
(* object made for its own parent's PlanResults, and an entry whose       *)
(* parent has an error is rejected.                                       *)
C11_EntriesSettled ==
  (nextTicks = <<>> /\ microtasks = <<>> /\ pendingExecutes = <<>>) =>
    \A l \in 1..Len(lookups) :
      LET d == promises[lookups[l].deferred]
          parent == crystalObjects[lookups[l].crystalObject].planResults
          failure == Expected(Field(lookups[l].field).planId, parent).k = "expectedError"
      IN /\ d.state # "pending"
         /\ d.state = "rejected" <=> failure
         /\ d.state = "fulfilled" =>
              /\ d.value.k = "obj"
              /\ crystalObjects[d.value.p].planResults = parent
              /\ crystalObjects[d.value.p].pathIdentity = Field(lookups[l].field).pathIdentity

(* One entry fails on its own, or the execution of the batch rejects *)
C11_Witness ==
  /\ nextTicks = <<>> /\ microtasks = <<>> /\ pendingExecutes = <<>>
  /\ \E b \in 1..Len(batches) :
       /\ Len(batches[b].entries) >= 2
       /\ \E e \in 1..Len(batches[b].entries) :
            promises[batches[b].entries[e].deferred].state = "fulfilled"
       /\ \E e \in 1..Len(batches[b].entries) :
            promises[batches[b].entries[e].deferred].state = "rejected"

(* C12: a field whose side-effect plans, plan, item plan and all their   *)
(* dependencies are sync is executed without a promise: the call of      *)
(* executeBatchForPlanResultses for its batch creates none and returns   *)
(* the results directly.                                                  *)
C12_SyncPathWithoutPromise ==
  \A b \in 1..Len(batches) :
    LET f == CHOOSE f \in FieldIds : Field(f).pathIdentity = batches[b].pathIdentity
        roots == Range(SideEffects(f)) \cup {Field(f).planId, Field(f).itemPlanId}
        onPath == UNION {recursiveDependencyIds(aether.plans, p) \cup {p} : p \in roots}
    IN (batches[b].drains > 0 /\ \A p \in onPath : Plan(p).sync) =>
         /\ batches[b].promisesCreated = 0
         /\ ~isPromiseLike(batches[b].returned)

(* C13: the phase of the compiler changes only to the phase that follows *)
(* it in init, plan, validate, deduplicate, optimize, finalize, ready,    *)
(* and once the constructor has raised an error the phase is never ready. *)
C13_PhasesInOrder ==
  /\ [][compiler'.phase # compiler.phase =>
          LET order == <<"init", "plan", "validate", "deduplicate", "optimize",
                         "finalize", "ready">>
          IN \E i \in 1..(Len(order) - 1) :
               compiler.phase = order[i] /\ compiler'.phase = order[i + 1]]_vars
  /\ [](compiler.error # "" => compiler.phase # "ready")

(* A plan's finalize raises: the constructor stops in the finalize phase *)
C13_Witness == compiler.error # "" /\ compiler.phase = "finalize"

----------------------------------------------------------------------------
(* C14: _addPlan and _addModifierPlan succeed only while the phase is      *)
(* plan, validate, deduplicate or optimize.  A step taken in phase init,   *)
(* finalize or ready leaves the plan table, planCount and the modifier-    *)
(* plan list as they were and makes no plan object, and a call of either   *)
(* method made in such a phase raises: no plan is created after the        *)
(* optimize phase.                                                         *)
C14_PlansOnlyWhilePlanning ==
  [][compiler'.phase \in {"init", "finalize", "ready"} =>
       /\ compiler'.plans = compiler.plans
       /\ Len(compiler'.objects) = Len(compiler.objects)
       /\ compiler'.planCount = compiler.planCount
       /\ compiler'.modifierPlans = compiler.modifierPlans
       /\ compiler'.modifierPlanCount = compiler.modifierPlanCount
       /\ \A i \in (Len(compiler.external) + 1)..Len(compiler'.external) :
            compiler'.external[i].raised]_vars

(* Both methods were called once the aether was ready, over a plan table   *)
(* that the four planning phases had filled                                *)
C14_Witness ==
  /\ compiler.phase = "ready"
  /\ compiler.planCount > 6
  /\ {e.method : e \in {compiler.external[i] : i \in 1..Len(compiler.external)}}
       = {"_addPlan", "_addModifierPlan"}
  /\ \A i \in 1..Len(compiler.external) :
       compiler.external[i].phase = "ready" /\ compiler.external[i].raised

----------------------------------------------------------------------------
----------------------------------------------------------------------------
(* C16: on a plan table on which the last pass of deduplicatePlans made no *)
(* replacement, one more deduplication pass makes no replacement and       *)
(* leaves every slot of the table as it was.                               *)
C16_DeduplicateFixpoint ==
  LET again(c) ==
        LET pass == Compile("processPlans", [c EXCEPT !.replacements = 0],
                            << "dependencies-first", "deduplicatePlan", 0 >>)
        IN c.error = "" => /\ pass.error = ""
                           /\ pass.replacements = 0
                           /\ pass.plans = c.plans
  IN (compiler.error = "" /\ compiler.phase \in {"plan", "validate", "deduplicate"}) =>
       again(Compile("deduplicatePlans", compiler, << 0, 0 >>))

(* The table of a planned operation on which deduplicatePlans replaces a   *)
(* plan by its peer before it reaches the pass that replaces nothing       *)
C16_Witness ==
  /\ compiler.error = ""
  /\ compiler.phase = "validate"
  /\ LET replaced(c) == c.error = "" /\ c.plans # compiler.plans
     IN replaced(Compile("deduplicatePlans", compiler, << 0, 0 >>))

----------------------------------------------------------------------------
(* The plans a tree node uses: the plan of its path identity (and, at the  *)
(* root, the subscription plan) with all it depends on, resolved through   *)
(* the plan table                                                          *)
UsedAt(c, node) ==
  LET planId == Lookup0(c.planIdByPathIdentity, c.treeNodes[node].pathIdentity)
      RECURSIVE closure(_)
      closure(reached) ==
        LET more == reached \cup
                      ({c.plans[d] : d \in UNION {Range(c.objects[plan].dependencies) :
                                                    plan \in reached}} \ {0})
        IN IF more = reached THEN reached ELSE closure(more)
  IN closure(({IF planId = 0 THEN 0 ELSE c.plans[planId]}
              \cup (IF c.treeNodes[node].parent = 0 /\ c.subscriptionPlanId # 0
                    THEN {c.plans[c.subscriptionPlanId]}
                    ELSE {})) \ {0})

(* The tree nodes above a tree node *)
RECURSIVE Ancestors(_, _)
Ancestors(c, node) ==
  IF c.treeNodes[node].parent = 0 THEN {}
  ELSE {c.treeNodes[node].parent} \cup Ancestors(c, c.treeNodes[node].parent)

(* The group ids of the field a tree node belongs to *)
GroupIdsAt(c, node) ==
  Range(c.groupIdsByPathIdentity[c.treeNodes[node].fieldPathIdentity])

----------------------------------------------------------------------------
(* C18: at the end of the optimize phase optimize has been called exactly  *)
(* once on every plan that is in the table, the replacement plans created  *)
(* during the pass included, and on no plan twice.                         *)
C18_OptimizedOnce ==
  (compiler.pc = "finalize" /\ compiler.error = "") =>
    /\ \A plan \in Range(compiler.plans) \ {0} :
         Cardinality({i \in 1..Len(compiler.optimized) : compiler.optimized[i] = plan}) = 1
    /\ \A i, j \in 1..Len(compiler.optimized) :
         compiler.optimized[i] = compiler.optimized[j] => i = j

----------------------------------------------------------------------------
(* C19: finalizeArguments is called exactly once on every plan created     *)
(* during compilation that is in the table under its own id, wherever the  *)
(* plan was created, and on no plan twice.                                 *)
C19_ArgumentsFinalizedOnce ==
  compiler.error = "" =>
    \A plan \in 1..Len(compiler.objects) :
      LET times == Cardinality({i \in 1..Len(compiler.argumentsFinalized) :
                                  compiler.argumentsFinalized[i] = plan})
      IN /\ times <= 1
         /\ compiler.plans[plan] = plan => times = 1

----------------------------------------------------------------------------
(* C20: when a plan's deduplicate returns a plan that is neither the plan  *)
(* itself nor one of the peers it was offered, deduplicatePlan raises and  *)
(* the plan table stays as it was when deduplicate was called; and a slot  *)
(* that deduplication has redirected holds a plan that was offered as a    *)
(* peer in the call that returned it.                                      *)
C20_ReplacedByPeersOnly ==
  LET asked == compiler.deduplicated
      stranger(e) == e.replacementPlan # e.plan /\ e.replacementPlan \notin Range(e.peers)
  IN /\ \A i \in 1..Len(asked) :
          stranger(asked[i]) => /\ compiler.error # ""
                                /\ i = Len(asked)
                                /\ compiler.plans = asked[i].plans
     /\ compiler.phase \in {"plan", "validate", "deduplicate"} =>
          \A slot \in DOMAIN compiler.plans :
            compiler.plans[slot] \notin {0, slot} =>
              \E i \in 1..Len(asked) :
                /\ asked[i].replacementPlan = compiler.plans[slot]
                /\ asked[i].replacementPlan # asked[i].plan
                /\ asked[i].replacementPlan \in Range(asked[i].peers)

(* The deduplicate phase stopped at a plan that answered with a plan it    *)
(* was not offered, after the planning phase had replaced nothing          *)
C20_Witness ==
  /\ compiler.phase = "deduplicate"
  /\ compiler.error = "deduplicatePlan error: Expected to replace plan with one of its peers"
  /\ compiler.deduplicated # <<>>
  /\ LET e == compiler.deduplicated[Len(compiler.deduplicated)]
     IN e.replacementPlan # e.plan /\ e.replacementPlan \notin Range(e.peers)

----------------------------------------------------------------------------
(* C21: in every deduplication pass, during planning and in the            *)
(* deduplicate phase, a plan with side effects is never replaced by        *)
(* another plan, is never asked to deduplicate, and is never among the     *)
(* peers offered to another plan.                                          *)
C21_SideEffectsNeverDeduplicated ==
  /\ \A i \in 1..Len(compiler.deduplicated) :
       /\ ~compiler.objects[compiler.deduplicated[i].plan].hasSideEffects
       /\ \A peer \in Range(compiler.deduplicated[i].peers) :
            ~compiler.objects[peer].hasSideEffects
  /\ compiler.phase \in {"plan", "validate", "deduplicate"} =>
       \A plan \in 1..Len(compiler.objects) :
         compiler.objects[plan].hasSideEffects => compiler.plans[plan] = plan

(* The deduplicate phase has passed over a plan with side effects and a    *)
(* plan without that is like it in class, scope and dependencies, one of   *)
(* which would have taken the other as its replacement                     *)
C21_Witness ==
  /\ compiler.phase = "deduplicate"
  /\ compiler.error = ""
  /\ \E a, b \in Range(compiler.plans) \ {0} :
       /\ a # b
       /\ compiler.objects[a].hasSideEffects
       /\ ~compiler.objects[b].hasSideEffects
       /\ compiler.objects[a].kind = compiler.objects[b].kind
       /\ compiler.objects[a].parentPathIdentity = compiler.objects[b].parentPathIdentity
       /\ compiler.objects[a].dependencies = compiler.objects[b].dependencies
       /\ "peer" \in {compiler.objects[a].deduplicate, compiler.objects[b].deduplicate}

----------------------------------------------------------------------------
(* The messages of the errors that condemn the operation as written *)
UserErrors ==
  {"Every field within a planned type must have a plan",
   "Field returns a type which expects a plan; this field has no plan",
   "Field returns a type which expects a plan; it is forbidden from defining a GraphQL resolver",
   "subscriptions may only have one top-level field"}

(* C22: a compile-time user error aborts the construction of the aether    *)
(* with the message of that error: the constructor stops in the plan       *)
(* phase, never becomes ready, and the error it raises is the user error.  *)
C22_UserErrorAbortsWithItsMessage ==
  compiler.consoleError \in UserErrors =>
    /\ compiler.phase = "plan"
    /\ compiler.pc = "plan"
    /\ compiler.error = compiler.consoleError


----------------------------------------------------------------------------
(* The executions of side-effect plans, in the order they began *)
SideEffectRuns(st) ==
  SelectSeq([k \in 1..Len(st.executions) |-> st.executions[k].plan],
            LAMBDA p : Plan(p).hasSideEffects)

(* What GraphQL sees of a delivered value: of a crystal object its path   *)
(* and its PlanResults, of any other value the value itself               *)
Observable(st, v) ==
  IF v.k = "obj"
  THEN << st.crystalObjects[v.p].pathIdentity, st.crystalObjects[v.p].planResults >>
  ELSE << v >>

(* C23: prefetch folding delivers what a batch of the field's own         *)
(* delivers.  When nothing is pending and the value of the field f was     *)
(* stored on the parent object o by prefetch, resolving f for o through a  *)
(* batch of its own delivers the same value and runs no side-effect plan   *)
(* that has not run: the side-effect plans that ran are the same and ran   *)
(* in the same order.                                                      *)
C23_PrefetchAsOwnBatch ==
  \A f \in FieldIds : \A o \in 1..Len(crystalObjects) :
    LET same(own) ==
          /\ Observable(own.st, own.ret) = Observable(S, crystalObjects[o].data[f])
          /\ SideEffectRuns(own.st) = SideEffectRuns(S)
    IN (/\ crystalObjects[o].data[f] # Absent
        /\ microtasks = <<>> /\ pendingExecutes = <<>> /\ nextTicks = <<>>)
       => same(Run("OwnBatch", S, << f, o >>))


----------------------------------------------------------------------------
(* Early termination of a stream *)

Finished(call) == call.returned = IteratorResult(TRUE, 0)

(* Every return and throw of the wrapping iterator that the source has a  *)
(* method for was passed on to the source, in order                       *)
TerminationPropagated ==
  SelectSeq(iterator.listResultIterator.calls, LAMBDA m : m # "next")
    = SelectSeq(iterator.terminations, LAMBDA m : iterator.listResultIterator[m])

(* C24: early termination wins the race against the next pending element: *)
(* a next() that was pending when return or throw was called, and every   *)
(* next() called later, completes with done = true and no element, and    *)
(* the termination is passed on to the source's return or throw.          *)
C24_TerminationWinsOverPendingNext ==
  /\ \A i \in 1..Len(iterator.nexts) :
       LET call == iterator.nexts[i]
       IN (call.pc = "returned"
             /\ call.atTermination \in {"waiting", "arrived", "processResults", "later"})
          => Finished(call)
  /\ TerminationPropagated

(* C24 as the code has it: a next() that was waiting for the source when  *)
(* return or throw was called, and every next() called later, completes   *)
(* with done = true and no element.  So does a next() whose element had   *)
(* arrived but had not passed the second race; if the source had failed   *)
(* it throws the error of the source.  A next() that had won both races   *)
(* and was processing its element delivers that element.  The termination *)
(* is passed on to the source's return or throw.                          *)
C24_TerminationWinsTheRaces ==
  /\ \A i \in 1..Len(iterator.nexts) :
       LET call == iterator.nexts[i]
       IN call.pc = "returned" =>
            /\ call.atTermination \in {"waiting", "later"} => Finished(call)
            /\ call.atTermination = "arrived" =>
                 IF call.nextPromise.thrown THEN call.returned = call.nextPromise
                 ELSE Finished(call)
            /\ call.atTermination = "processResults" =>
                 call.returned = call.nextPromise /\ ~Finished(call)
  /\ TerminationPropagated

C24_Witness ==
  /\ iterator.terminations # <<>>
  /\ iterator.listResultIterator.calls # <<>>
  /\ \E i, j, k \in 1..Len(iterator.nexts) :
       /\ iterator.nexts[i].pc = "returned" /\ iterator.nexts[i].atTermination = "waiting"
       /\ iterator.nexts[j].pc = "returned" /\ iterator.nexts[j].atTermination = "later"
       /\ iterator.nexts[j].nextPromise # Pending
       /\ iterator.nexts[k].pc = "returned"
       /\ iterator.nexts[k].atTermination = "processResults"


----------------------------------------------------------------------------
----------------------------------------------------------------------------
(* C26: the plan that serves the subscription's event stream is a seed of  *)
(* the tree shake: whenever subscriptionPlanId is set and the plans have   *)
(* been tree shaken, its slot of the plan table holds a plan, with a       *)
(* subscribe plan and without one.                                         *)
C26_SubscriptionPlanLive ==
  (compiler.subscriptionPlanId # 0 /\ compiler.treeShakes > 0) =>
    compiler.plans[compiler.subscriptionPlanId] # 0


----------------------------------------------------------------------------
(* C27: once the plans have been tree shaken, every path identity in       *)
(* planIdByPathIdentity names a slot of the plan table that holds a plan,  *)
(* whatever the kind of the field: the first-use walk and newBatch find    *)
(* the plan of every field.                                                *)
C27_FieldPlansLive ==
  compiler.treeShakes > 0 =>
    \A pathIdentity \in DOMAIN compiler.planIdByPathIdentity :
      compiler.plans[compiler.planIdByPathIdentity[pathIdentity]] # 0


----------------------------------------------------------------------------
(* The plans reachable in the table from the seeds of the tree shake *)
LivePlans(c) ==
  LET RECURSIVE closure(_)
      closure(reached) ==
        LET more == reached \cup
                      ({c.plans[d] : d \in UNION {Range(c.objects[plan].dependencies) :
                                                    plan \in reached}} \ {0})
        IN IF more = reached THEN reached ELSE closure(more)
  IN closure({c.plans[planId] : planId \in activeRoots(c)} \ {0})

DeadPlans(c) == {c.plans[i] : i \in DOMAIN c.plans} \ (LivePlans(c) \cup {0})

(* C28: the plans are tree shaken after every phase transition: when the   *)
(* validate, deduplicate, optimize or finalize phase is about to start its *)
(* work, and in the ready phase, no plan of the table is unreachable from  *)
(* the seeds, and no plan that was finalized is.                           *)
C28_NoDeadPlanInAnyPhase ==
  (compiler.error = ""
     /\ compiler.pc \in {"validate", "deduplicate", "optimize", "finalize", "ready", "done"})
  => /\ DeadPlans(compiler) = {}
     /\ Range(compiler.finalized) \subseteq LivePlans(compiler)

(* C28 as the code has it: the plans are tree shaken at the end of the     *)
(* validate, deduplicate and optimize phases.  When the deduplicate,       *)
(* optimize or finalize phase is about to start its work, and in the ready *)
(* phase, no plan of the table is unreachable from the seeds, and no plan  *)
(* that was finalized is; the validate phase starts with the plans of      *)
(* planning, dead ones included.                                           *)
C28_NoDeadPlanAfterValidate ==
  (compiler.error = ""
     /\ compiler.pc \in {"deduplicate", "optimize", "finalize", "ready", "done"})
  => /\ DeadPlans(compiler) = {}
     /\ Range(compiler.finalized) \subseteq LivePlans(compiler)

(* A ready aether whose plans were shaken three times, with a slot nulled, *)
(* a slot that holds a replacement, and finalized plans                    *)
C28_Witness ==
  /\ compiler.error = ""
  /\ compiler.phase = "ready"
  /\ compiler.treeShakes >= 3
  /\ compiler.finalized # <<>>
  /\ \E i \in DOMAIN compiler.plans : compiler.plans[i] = 0
  /\ \E i \in DOMAIN compiler.plans : compiler.plans[i] \notin {0, i}


----------------------------------------------------------------------------
(* C29: when the optimize phase has completed, the plans have been         *)
(* deduplicated again: on the table the finalize phase starts with, and on *)
(* the table of the ready aether, a deduplication pass finds nothing to    *)
(* replace.                                                                *)
C29_DeduplicatedAfterOptimize ==
  LET collapsed(c) == c.error = "" /\ c.plans = compiler.plans
  IN (compiler.error = "" /\ compiler.pc \in {"finalize", "ready", "done"}) =>
       collapsed(Compile("deduplicatePlans", compiler, << 0, 0 >>))


(* The pairs of distinct live plans that deduplicatePlan would offer to    *)
(* one another as peers                                                    *)
PeerPairs(c) ==
  {pair \in (1..Len(c.plans)) \X (1..Len(c.plans)) :
     /\ pair[1] < pair[2]
     /\ c.plans[pair[1]] = pair[1] /\ c.plans[pair[2]] = pair[2]
     /\ ~c.objects[pair[1]].hasSideEffects /\ ~c.objects[pair[2]].hasSideEffects
     /\ ~c.objects[pair[1]].stream /\ ~c.objects[pair[2]].stream
     /\ isPeer(c, pair[1], pair[2])}

(* C29, as amended: deduplication is done while planning and in the        *)
(* deduplicate phase only.  From the optimize phase on no step asks a plan *)
(* to deduplicate itself, and the plans that are peers when the finalize   *)
(* phase begins are all still live and distinct when it has ended.         *)
C29_NoDeduplicationAfterOptimize ==
  [][compiler.pc \in {"optimize", "finalize", "ready", "done"} =>
       /\ compiler'.deduplicated = compiler.deduplicated
       /\ (compiler.pc = "finalize" /\ compiler'.error = "") =>
            PeerPairs(compiler) \subseteq PeerPairs(compiler')]_vars

(* A compiled operation with two live plans that optimization made peers,  *)
(* one of which would give way to the other if asked; both were finalized  *)
C29_Witness ==
  /\ compiler.error = ""
  /\ compiler.pc \in {"ready", "done"}
  /\ \E pair \in PeerPairs(compiler) :
       /\ compiler.objects[pair[1]].deduplicate = "peer"
       /\ {pair[1], pair[2]} \subseteq Range(compiler.finalized)
       /\ \E i \in DOMAIN compiler.optimized : TRUE


-----------------------------------------------------------------------------
(* The plans a plan depends on, its dependency ids resolved through the   *)
(* table; 0 where the slot is empty                                        *)
ResolvedDependencies(c, plan) ==
  {c.plans[d] : d \in Range(c.objects[plan].dependencies)}

(* The plans reached from a set of plans in n steps of the relation or    *)
(* fewer                                                                   *)
RECURSIVE Reached(_, _, _)
Reached(c, plans, n) ==
  IF n = 0 THEN plans
  ELSE Reached(c, plans \cup UNION {ResolvedDependencies(c, p) \ {0} : p \in plans}, n - 1)

TablePlans(c) == Range(c.plans) \ {0}

Acyclic(c) ==
  \A plan \in TablePlans(c) :
    plan \notin Reached(c, ResolvedDependencies(c, plan) \ {0}, c.planCount)

-----------------------------------------------------------------------------
(* C31: whenever optimizePlans calls a plan's optimize, every plan of the  *)
(* table that depends on it, through the table as it is at that moment,    *)
(* has had its optimize called.                                            *)
C31_DependentsOptimizedFirst ==
  \A i \in DOMAIN compiler.unoptimizedDependents :
    compiler.unoptimizedDependents[i] = {}


-----------------------------------------------------------------------------
(* C32: when the finalize phase has ended, finalize has been called once   *)
(* on each plan of the table, on no other plan, and on a plan created      *)
(* later before a plan created earlier.                                    *)
C32_FinalizedNewestFirst ==
  (compiler.error = "" /\ compiler.pc \in {"ready", "done"}) =>
    /\ Range(compiler.finalized) = LivePlans(compiler)
    /\ \A i, j \in DOMAIN compiler.finalized :
         i < j => compiler.finalized[i] > compiler.finalized[j]

(* The last slot of the table that holds a plan *)
LastSlot(c, plan) == CHOOSE i \in DOMAIN c.plans :
                       /\ c.plans[i] = plan
                       /\ \A j \in DOMAIN c.plans : c.plans[j] = plan => j <= i

(* C32, as amended: finalize is called once on each plan of the table and  *)
(* on no other plan, in the order of the last slots that hold the plans,   *)
(* the last slot first.                                                    *)
C32_FinalizedLastSlotFirst ==
  (compiler.error = "" /\ compiler.pc \in {"ready", "done"}) =>
    /\ Range(compiler.finalized) = LivePlans(compiler)
    /\ \A i, j \in DOMAIN compiler.finalized :
         i < j => LastSlot(compiler, compiler.finalized[i])
                    > LastSlot(compiler, compiler.finalized[j])

(* A compiled operation in which a plan that a later slot was pointed at   *)
(* was finalized before a plan created after it                            *)
C32_Witness ==
  /\ compiler.error = ""
  /\ compiler.pc \in {"ready", "done"}
  /\ \E i, j \in DOMAIN compiler.finalized :
       /\ i < j
       /\ compiler.finalized[i] < compiler.finalized[j]
       /\ LastSlot(compiler, compiler.finalized[i]) > compiler.finalized[j]


-----------------------------------------------------------------------------
(* The tree nodes at which the walk of the tree meets a plan for the first *)
(* time on its way down: those that use the plan while no tree node above  *)
(* them does                                                               *)
FirstUseNodes(c, plan) ==
  {n \in DOMAIN c.treeNodes :
     /\ plan \in UsedAt(c, n)
     /\ \A a \in Ancestors(c, n) : plan \notin UsedAt(c, a)}

(* A tree node is the list item of the tree node above it *)
IsListItem(c, n) ==
  /\ c.treeNodes[n].parent # 0
  /\ c.treeNodes[n].fieldPathIdentity = c.treeNodes[c.treeNodes[n].parent].fieldPathIdentity
  /\ c.treeNodes[n].pathIdentity # c.treeNodes[c.treeNodes[n].parent].pathIdentity

(* The tree nodes a plan's values may be stored under: at or above every   *)
(* first use, within the plan's parentPathIdentity, and not across a list  *)
(* boundary inside it                                                      *)
CommonAncestors(c, plan) ==
  LET within(n) == StartsWith(c.treeNodes[n].pathIdentity, c.objects[plan].parentPathIdentity)
  IN {d \in DOMAIN c.treeNodes :
        /\ within(d)
        /\ \A n \in FirstUseNodes(c, plan) : d \in {n} \cup Ancestors(c, n)
        /\ \A m \in {d} \cup Ancestors(c, d) :
             ~(IsListItem(c, m) /\ within(c.treeNodes[m].parent))}

(* C33: when the finalize phase has ended, the commonAncestorPathIdentity  *)
(* of every plan of the table is the path identity of the deepest of these *)
(* tree nodes, starts with the plan's parentPathIdentity, and has been     *)
(* assigned once.                                                          *)
C33_CommonAncestorIsDeepest ==
  (compiler.error = "" /\ compiler.pc \in {"ready", "done"}) =>
    \A plan \in TablePlans(compiler) :
      /\ FirstUseNodes(compiler, plan) # {}
      /\ \E d \in CommonAncestors(compiler, plan) :
           /\ \A e \in CommonAncestors(compiler, plan) : e \in {d} \cup Ancestors(compiler, d)
           /\ compiler.objects[plan].commonAncestorPathIdentity
                = compiler.treeNodes[d].pathIdentity
      /\ StartsWith(compiler.objects[plan].commonAncestorPathIdentity,
                    compiler.objects[plan].parentPathIdentity)
      /\ Cardinality({i \in DOMAIN compiler.commonAncestorAssigned :
                        compiler.commonAncestorAssigned[i] = plan}) = 1


-----------------------------------------------------------------------------
(* C34: deduplicatePlans terminates.  Every pass but the last takes at     *)
(* least one plan out of the table, so the passes it has made never exceed *)
(* the number of plans by more than one; it has ended with a pass that     *)
(* replaced nothing unless an error was raised, and the error of the cap   *)
(* is raised only when the passes exceed the cap.                          *)
C34_DeduplicationTerminates ==
  /\ compiler.loops <= compiler.planCount + 1
  /\ compiler.error = "" => compiler.replacements = 0
  /\ compiler.error = "deduplicatePlans has looped and is still substituting out plans"
       => compiler.loops > MaxLoops

(* A deduplication that needed a second pass: the first replaced a plan by *)
(* its peer, the second replaced nothing                                   *)
C34_Witness ==
  /\ compiler.error = ""
  /\ compiler.loops >= 2
  /\ compiler.replacements = 0
  /\ \E i \in DOMAIN compiler.deduplicated :
       compiler.deduplicated[i].replacementPlan # compiler.deduplicated[i].plan


-----------------------------------------------------------------------------
(* What the claim says planning a field fails on *)
Forbidden(field) ==
  \/ field.typePlan /\ ~field.planned
  \/ field.resultIsPlanned /\ ~field.planned
  \/ field.resultIsPlanned /\ field.resolver

PolicyErrors ==
  {"Every field within a planned type must have a plan",
   "Field returns a type which expects a plan; this field has no plan",
   "Field returns a type which expects a plan; it is forbidden from defining a GraphQL resolver"}

(* C35: planning fails on a field's declarations exactly when the type     *)
(* expects a plan and the field has no plan function, or the result type   *)
(* expects a plan and the field has no plan function or has a resolver of  *)
(* its own.  When the operation has been planned, a field of the operation *)
(* type is marked unplanned, its path naming the plan its parent handed    *)
(* down, exactly when it has no plan function.                             *)
C35_FieldPlanPolicy ==
  LET fields == compiler.operation.fields
      topLevel == {f \in DOMAIN fields : fields[f].parent = 0}
      pathIdentity(f) == "~>" \o fields[f].key
      parentPlan == IF compiler.operation.operationType = "subscription"
                       /\ compiler.operation.subscribed
                    THEN compiler.subscriptionItemPlanId
                    ELSE compiler.trackedRootValuePlan
  IN /\ compiler.consoleError \in PolicyErrors => \E f \in DOMAIN fields : Forbidden(fields[f])
     /\ (compiler.pc # "plan" /\ compiler.consoleError = "") =>
          /\ \A f \in DOMAIN fields : ~Forbidden(fields[f])
          /\ \A f \in topLevel :
               (/\ pathIdentity(f) \in DOMAIN compiler.isUnplannedByPathIdentity
                /\ Lookup0(compiler.planIdByPathIdentity, pathIdentity(f)) = parentPlan)
               <=> ~fields[f].planned
     /\ (compiler.pc # "plan" /\ compiler.operation \in PolicyOperations) =>
          (compiler.consoleError # "" <=> Forbidden(fields[1]))

(* The sixteen combinations have been planned: one that succeeds without a *)
(* plan function and is marked unplanned                                   *)
C35_Witness ==
  /\ compiler.operation \in PolicyOperations
  /\ compiler.pc # "plan"
  /\ compiler.consoleError = ""
  /\ ~compiler.operation.fields[1].planned
  /\ compiler.operation.fields[1].resolver
  /\ "~>Query.p" \in DOMAIN compiler.isUnplannedByPathIdentity
  /\ compiler.planIdByPathIdentity["~>Query.p"] = compiler.trackedRootValuePlan


-----------------------------------------------------------------------------
(* The plans that have yet to run for a child field when its parent field  *)
(* has been resolved: the child's plan, its item plan and all they depend  *)
(* on, but for what the parent's own batch has executed                    *)
StillToRun(plans, fields, f, child) ==
  ({fields[child].planId, fields[child].itemPlanId}
     \cup recursiveDependencyIds(plans, fields[child].planId)
     \cup recursiveDependencyIds(plans, fields[child].itemPlanId))
  \ (executedPlanIds(plans, fields, f, f) \cup Range(prefetchLocal(plans, fields, f)))

(* C36: a child field is among the prefetch children of its parent field   *)
(* only if the parent's item plan shares a group id with the child's plan  *)
(* and with the child's item plan, and every plan that has yet to run for  *)
(* the child is synchronous and free of side effects.                      *)
C36_PrefetchOnlySyncPlans ==
  \A f \in DOMAIN aether.fields :
    \A child \in Range(aether.prefetchesForPathIdentity[f].children) :
      /\ aether.plans[aether.fields[f].itemPlanId].groupIds
           \cap aether.plans[aether.fields[child].planId].groupIds # {}
      /\ aether.plans[aether.fields[f].itemPlanId].groupIds
           \cap aether.plans[aether.fields[child].itemPlanId].groupIds # {}
      /\ \A p \in StillToRun(aether.plans, aether.fields, f, child) :
           aether.plans[p].sync /\ ~aether.plans[p].hasSideEffects


-----------------------------------------------------------------------------
(* The deferreds executePlanOld has registered in the in-flight maps *)
RegisteredDeferreds ==
  UNION {Range(frames[fid].defs) : fid \in {f \in DOMAIN frames : frames[f].kind = "old"}}

(* C37: an entry of the in-flight maps is the deferred executePlanOld      *)
(* registered for that plan and bucket, and it is there exactly as long as *)
(* the deferred is pending; when every execute has settled and no promise  *)
(* job is left to run, every registered deferred has been settled, by the  *)
(* success or by the failure of its plan, and the maps are empty.          *)
C37_InFlightEntriesRemoved ==
  /\ \A plan \in DOMAIN inProgressPlanResolutions :
       \A bucket \in DOMAIN inProgressPlanResolutions[plan] :
         inProgressPlanResolutions[plan][bucket] # 0 =>
           /\ inProgressPlanResolutions[plan][bucket] \in RegisteredDeferreds
           /\ promises[inProgressPlanResolutions[plan][bucket]].state = "pending"
  /\ \A d \in RegisteredDeferreds :
       promises[d].state = "pending" =>
         \E plan \in DOMAIN inProgressPlanResolutions :
           \E bucket \in DOMAIN inProgressPlanResolutions[plan] :
             inProgressPlanResolutions[plan][bucket] = d
  /\ (microtasks = <<>> /\ pendingExecutes = <<>> /\ nextTicks = <<>>) =>
       /\ \A d \in RegisteredDeferreds : promises[d].state # "pending"
       /\ \A plan \in DOMAIN inProgressPlanResolutions :
            \A bucket \in DOMAIN inProgressPlanResolutions[plan] :
              inProgressPlanResolutions[plan][bucket] = 0

C37_Witness ==
  /\ microtasks = <<>> /\ pendingExecutes = <<>> /\ nextTicks = <<>>
  /\ \E d \in RegisteredDeferreds : promises[d].state = "rejected"
  /\ \E d \in RegisteredDeferreds : promises[d].state = "fulfilled"
  /\ \A plan \in DOMAIN inProgressPlanResolutions :
       \A bucket \in DOMAIN inProgressPlanResolutions[plan] :
         inProgressPlanResolutions[plan][bucket] = 0


-----------------------------------------------------------------------------
(* executePlanAlt and executePlanPending: whether the plan is run through  *)
(* stream rather than execute                                              *)
isSubscribeOrStream(c, plan) ==
  plan = c.subscriptionPlanId \/ c.objects[plan].stream

EndsWith(string, searchString) ==
  /\ Len(searchString) <= Len(string)
  /\ SubSeq(string, Len(string) - Len(searchString) + 1, Len(string)) = searchString

(* The fields selected with @stream whose plan function returned a        *)
(* streamable plan, and the live plans that serve them                    *)
StreamFields(c) ==
  {f \in DOMAIN c.operation.fields :
     LET field == c.operation.fields[f]
     IN /\ field.planned /\ field.streamDirective
        /\ field.plan.result > 0
        /\ field.plan.plans[field.plan.result].streamable}

Serves(c, plan, f) ==
  \E path \in DOMAIN c.planIdByPathIdentity :
    /\ EndsWith(path, ">" \o c.operation.fields[f].key)
    /\ c.plans[c.planIdByPathIdentity[path]] = plan

(* C38: in a ready aether a plan of the table is run through stream       *)
(* exactly when it is the live subscription plan or the live plan that    *)
(* serves a field selected with @stream on a streamable plan, and it is   *)
(* then streamed with the initialCount of that field.                     *)
C38_StreamedIffStreamField ==
  (compiler.pc = "done" /\ compiler.error = "") =>
    \A plan \in TablePlans(compiler) :
      /\ isSubscribeOrStream(compiler, plan) <=>
            \/ /\ compiler.operation.operationType = "subscription"
               /\ plan = compiler.plans[compiler.subscriptionPlanId]
            \/ \E f \in StreamFields(compiler) : Serves(compiler, plan, f)
      /\ \A f \in StreamFields(compiler) :
           Serves(compiler, plan, f) =>
             compiler.objects[plan].initialCount = compiler.operation.fields[f].initialCount


-----------------------------------------------------------------------------
(* The plan was made under the field of this path identity, by its plan    *)
(* function or for its arguments                                           *)
MadeForField(c, plan, pathIdentity) ==
  \E f \in DOMAIN c.operation.fields :
    /\ c.operation.fields[f].planned
    /\ pathIdentity = c.objects[plan].parentPathIdentity \o ">" \o c.operation.fields[f].key

(* C39: a side-effect list holds, once each and in the order they were     *)
(* made, plans with side effects that were made under its field; and when  *)
(* compilation has not been aborted, every plan with side effects is in    *)
(* the list of the field it was made under.                                *)
C39_SideEffectPlansOfFields ==
  LET lists == compiler.sideEffectPlanIdsByPathIdentity
  IN /\ \A pathIdentity \in DOMAIN lists :
          /\ \A i \in DOMAIN lists[pathIdentity] :
               /\ compiler.objects[lists[pathIdentity][i]].hasSideEffects
               /\ MadeForField(compiler, lists[pathIdentity][i], pathIdentity)
          /\ \A i, j \in DOMAIN lists[pathIdentity] :
               i < j => lists[pathIdentity][i] < lists[pathIdentity][j]
     /\ compiler.error = "" =>
          \A plan \in DOMAIN compiler.objects :
            compiler.objects[plan].hasSideEffects =>
              \E pathIdentity \in DOMAIN lists :
                /\ plan \in Range(lists[pathIdentity])
                /\ MadeForField(compiler, plan, pathIdentity)


-----------------------------------------------------------------------------
(* C40: when a watchSchema call has failed, on a watcher or on the first   *)
(* buildSchema, the builder is not busy and not watching, no watcher holds *)
(* a change trigger it did not hold before the call, and the listeners     *)
(* attached to the schema event are those of before the call.              *)
C40_FailedWatchRestoresBuilder ==
  (builder.pc = "idle" /\ builder.thrown \in {"watcher threw", "Schema generation failed"}) =>
    /\ ~builder._busy /\ ~builder._watching
    /\ builder.watching = builder.before.watching
    /\ builder.listeners = builder.before.listeners

====
